---------------------------- MODULE Spec2Model ----------------------------
(***************************************************************************)
(* dBank Deep Insights Copilot: the tool-call orchestration and safety    *)
(* pipeline.                                                               *)
(*                                                                         *)
(*   mcp_server/tools/sql_query.py      SQL safety gate, PII masking,      *)
(*                                      execute_sql_query                  *)
(*   mcp_server/server.py               call_tool (the dispatcher)         *)
(*   fastapi_app/core/tool_orchestrator.py  execute_tool, execute_tools    *)
(*   fastapi_app/core/conversation.py   ConversationManager                *)
(*   fastapi_app/app.py                 process_question_stream (the turn) *)
(*                                                                         *)
(* A query is a sequence of lexical tokens separated by white space; a     *)
(* string value is a sequence of one-character strings.                    *)
(***************************************************************************)
EXTENDS Integers, Sequences, FiniteSets, TLC

VARIABLES
    query,      \* SpecGate: the query string handed to the gate, as tokens
    verdict,    \* SpecGate: "none" before the gate ran, then its outcome
    sqlIn,      \* SpecSql: the arguments of the call of execute_sql_query
    sqlOut,     \* SpecSql: what the call did and how it ended
    tool_calls, \* SpecTools: the requests execute_tools was called with
    tool_results, \* SpecTools: the results list of execute_tools
    envs,       \* SpecTools: what each request met (network, database, KB)
    toolsPc,    \* SpecTools: "idle", "loop", "returned" or "raised"
    pc,         \* SpecTurn: where process_question_stream stands
    resume,     \* SpecTurn: where it goes on after the pending sleep(0)
    events,     \* SpecTurn: the events yielded so far
    messages,   \* SpecTurn: the context list handed to the model
    conversations,    \* SpecTurn: the store, conversation id -> conversation
    conversation_id,  \* SpecTurn: the id the turn works on
    created,          \* SpecTurn: how many conversations were created so far
    accumulated_text, \* SpecTurn: the text chunks streamed so far
    response,         \* SpecTurn: the tool_calls of the first model response
    exec_results,     \* SpecTurn: the results list inside execute_tools
    executed_tools,   \* SpecTurn: what execute_tools returned
    llm_calls,  \* SpecTurn: the model calls made, with tools and context
    execRuns,   \* SpecTurn: how often execute_tools was called
    cancelled,  \* SpecTurn: CancelledError was raised in the turn
    fnCall,     \* SpecPure: the function called and its arguments
    fnRet,      \* SpecPure: what the call returned
    asked,      \* SpecConv: the questions a caller asked, one record per turn
    now,        \* SpecStore: datetime.utcnow(), in hours
    lastOp,     \* SpecStore: the last call on the store and what it returned
    turns       \* SpecRace: the two turns in flight, each with its locals

gateVars == <<query, verdict>>

sqlVars == <<sqlIn, sqlOut>>

toolVars == <<tool_calls, tool_results, envs, toolsPc>>

turnVars == <<pc, resume, events, messages, conversations, conversation_id,
              created, accumulated_text, response, exec_results, executed_tools,
              llm_calls, execRuns, cancelled>>

fnVars == <<fnCall, fnRet>>

convVars == <<asked>>

storeVars == <<now, lastOp>>

raceVars == <<turns>>

vars == <<query, verdict, sqlIn, sqlOut, tool_calls, tool_results, envs, toolsPc,
          pc, resume, events, messages, conversations, conversation_id,
          created, accumulated_text, response, exec_results, executed_tools, llm_calls, execRuns, cancelled,
          fnCall, fnRet, asked, now, lastOp, turns>>

-----------------------------------------------------------------------------
(* Bounds of the model *)

\* longest query, in tokens, that the gate is run on
MaxGateLen == 5

\* longest query, in tokens, that execute_sql_query is called with
MaxSqlLen == 2

\* most rows the database holds for a statement
MaxDbRows == 2

\* the longest list of tool calls of one model response
MaxTools == 2

\* most text chunks the model streams in one answer
MaxChunks == 2

\* longest query template, in tokens, that convert_named_to_positional is given
MaxTemplateLen == 3
MaxMaskRows == 2
MaxCorpusLen == 2
MaxTurns == 3
MaxConvs == 2
MaxTicks == 2
MaxAppends == 12

-----------------------------------------------------------------------------
(* Sequence helpers *)

RECURSIVE DropLeading(_, _)
\* s without its leading elements that are in set ws
DropLeading(s, ws) ==
    IF s = <<>> THEN <<>>
    ELSE IF Head(s) \in ws THEN DropLeading(Tail(s), ws) ELSE s

RECURSIVE DropTrailing(_, _)
\* s without its trailing elements that are in set ws
DropTrailing(s, ws) ==
    IF s = <<>> THEN <<>>
    ELSE IF s[Len(s)] \in ws THEN DropTrailing(SubSeq(s, 1, Len(s) - 1), ws) ELSE s

\* the sequences over S of length at most n
SeqsUpTo(S, n) == UNION {[1..k -> S] : k \in 0..n}

\* the tokens of s from position i on
From(s, i) == SubSeq(s, i, Len(s))

\* the least position >= i of s that holds t, or 0
FirstAt(s, t, i) ==
    IF \E j \in i..Len(s) : s[j] = t
    THEN CHOOSE j \in i..Len(s) : s[j] = t /\ \A k \in i..(j - 1) : s[k] # t
    ELSE 0

-----------------------------------------------------------------------------
(* SQL safety gate: mcp_server/tools/sql_query.py *)

\* white-space tokens: str.strip() and the regex class \s remove or skip them
WhiteSpace == {"\n"}

\* what a removed comment leaves behind: the white space that separated it
\* from its neighbours
Gap == " "

\* query.strip()
Strip(q) == DropTrailing(DropLeading(q, WhiteSpace), WhiteSpace)

RECURSIVE RemoveLineComments(_)
\* re.sub(r'--.*?$', '', normalized, flags=re.MULTILINE): every "--" and what
\* follows it up to the end of its line goes, wherever the "--" stands (the
\* substitution does not look at quotes)
RemoveLineComments(q) ==
    IF q = <<>> THEN <<>>
    ELSE IF Head(q) = "--"
         THEN LET nl == FirstAt(q, "\n", 1)
              IN  IF nl = 0 THEN <<Gap>>
                  ELSE <<Gap>> \o RemoveLineComments(From(q, nl))
         ELSE <<Head(q)>> \o RemoveLineComments(Tail(q))

RECURSIVE RemoveBlockComments(_)
\* re.sub(r'/\*.*?\*/', '', normalized, flags=re.DOTALL): every "/*" up to the
\* first "*/" after it goes; a "/*" that is never closed stays
RemoveBlockComments(q) ==
    IF q = <<>> THEN <<>>
    ELSE IF Head(q) = "/*"
         THEN LET close == FirstAt(q, "*/", 2)
              IN  IF close = 0 THEN q
                  ELSE <<Gap>> \o RemoveBlockComments(From(q, close + 1))
         ELSE <<Head(q)>> \o RemoveBlockComments(Tail(q))

\* the write_keywords of is_read_only
WriteKeywords ==
    {"INSERT", "UPDATE", "DELETE", "DROP", "CREATE", "ALTER", "TRUNCATE",
     "REPLACE", "MERGE", "GRANT", "REVOKE", "EXEC", "EXECUTE", "CALL", "DO"}

\* the comment-stripped query that is_read_only inspects (upper-casing is the
\* identity on the tokens, which are written in upper case)
Normalized(q) == RemoveBlockComments(RemoveLineComments(Strip(q)))

\* is_read_only(query)
IsReadOnly(q) ==
    LET n == Normalized(q)
    IN  /\ \A i \in 1..Len(n) : n[i] \notin WriteKeywords
        /\ n # <<>>
        /\ n[1] \in {"SELECT", "WITH"}

\* MAX_QUERY_LENGTH, counted here in tokens
MAX_QUERY_LENGTH == 10000

\* tokens that match one of the function patterns of validate_sql_query
\* (pg_sleep, dblink, lo_import, lo_export, load_file; the two patterns that
\* span white space, copy\s+ and into\s+outfile, are left out)
DangerousTokens == {"PG_SLEEP", "DBLINK", "LO_IMPORT", "LO_EXPORT", "LOAD_FILE"}

\* re.search(r';\s*KW', query): a ";" followed, after any white space, by KW
SemicolonThen(q, kw) ==
    \E i \in 1..Len(q) :
        /\ q[i] = ";"
        /\ LET rest == DropLeading(From(q, i + 1), WhiteSpace)
           IN  rest # <<>> /\ Head(rest) = kw

\* validate_sql_query(query): the error message, or "None"
ValidateSqlQuery(q) ==
    IF Strip(q) = <<>> THEN "Query cannot be empty"
    ELSE IF Len(q) > MAX_QUERY_LENGTH THEN "Query exceeds maximum length"
    ELSE IF SemicolonThen(q, "SELECT") \/ SemicolonThen(q, "WITH")
         THEN "Multiple statements detected"
    ELSE IF \E i \in 1..Len(q) : q[i] \in DangerousTokens
         THEN "Dangerous function not allowed"
    ELSE "None"

\* the checks execute_sql_query runs on the query before anything else
GateOf(q) ==
    IF Strip(q) = <<>> THEN "empty"
    ELSE IF ~IsReadOnly(q) THEN "not_read_only"
    ELSE IF ValidateSqlQuery(q) # "None" THEN "dangerous_pattern"
    ELSE "ok"

-----------------------------------------------------------------------------
(* PII masking: mcp_server/tools/sql_query.py *)

\* Python's None, as a value that is no string of characters
None == <<"None">>

\* what a masking step leaves in place of a value when it raises IndexError
IndexError == <<"IndexError">>

\* pat occurs in s as a contiguous run (Python's "pat in s")
Contains(s, pat) ==
    \E i \in 1..(Len(s) - Len(pat) + 1) : SubSeq(s, i, i + Len(pat) - 1) = pat

\* n copies of x
Repeat(x, n) == [i \in 1..n |-> x]

\* PII_FIELDS
PII_FIELDS ==
    {"email", "phone", "mobile", "ssn", "passport", "id_number", "credit_card",
     "card_number", "account_number", "tax_id", "national_id",
     "drivers_license", "address", "home_address", "first_name", "last_name",
     "full_name", "birth_date", "dob"}

\* the entries of PII_FIELDS that occur in a column name, for the column
\* names of the model ("pat in field_name.lower()")
PiiPatternsIn(field) ==
    CASE field = "email" -> {"email"}
      [] field = "phone" -> {"phone"}
      [] field = "full_name" -> {"full_name"}
      [] OTHER -> {}

\* is_pii_field(field_name)
IsPiiField(field) == PiiPatternsIn(field) \cap PII_FIELDS # {}

\* mask_value(value, field_name)
MaskValue(value, field) ==
    IF value = None \/ ~IsPiiField(field) THEN value
    ELSE IF "email" \in PiiPatternsIn(field) /\ Contains(value, <<"@">>)
         THEN LET at == FirstAt(value, "@", 1)
                  local == SubSeq(value, 1, at - 1)
                  domain == From(value, at + 1)
              IN  IF local = <<>> THEN IndexError
                  ELSE <<local[1], "*", "*", "*", "@">> \o domain
    ELSE IF "phone" \in PiiPatternsIn(field) \/ "mobile" \in PiiPatternsIn(field)
         THEN IF Len(value) >= 4
              THEN <<"*", "*", "*", "-", "*", "*", "*", "-">>
                       \o SubSeq(value, Len(value) - 3, Len(value))
              ELSE <<"*", "*", "*">>
    ELSE IF Len(value) > 2
         THEN <<value[1]>> \o Repeat("*", Len(value) - 2) \o <<value[Len(value)]>>
    ELSE <<"*", "*", "*">>

\* one row of mask_query_results
MaskRow(row) == [f \in DOMAIN row |-> MaskValue(row[f], f)]

\* mask_query_results(results): the masked rows; raised is TRUE when masking
\* a value raised
MaskQueryResults(results) ==
    LET masked == [i \in 1..Len(results) |-> MaskRow(results[i])]
    IN  [raised |-> \E i \in 1..Len(masked) :
                        \E f \in DOMAIN masked[i] : masked[i][f] = IndexError,
         rows |-> masked]

-----------------------------------------------------------------------------
(* Parameter handling: mcp_server/tools/sql_query.py *)

\* the placeholder tokens {{name}} and the name each one references
Placeholders == {"{{a}}", "{{b}}"}

PlaceholderName(t) == IF t = "{{a}}" THEN "a" ELSE "b"

\* a parameter map is a function from some names to values; the empty map
\* (an absent map, None, takes the same branches: both are falsy)
NoParams == [k \in {} |-> <<>>]

\* the suspicious_patterns of validate_parameters
SuspiciousPatterns ==
    {<<";">>, <<"-", "-">>, <<"/", "*">>, <<"*", "/">>,
     <<"x", "p", "_">>, <<"s", "p", "_">>}

\* validate_parameters(parameters): the error, or "None" (the names of the
\* model all match the name pattern, and no value is longer than 1000)
ValidateParameters(parameters) ==
    IF \E k \in DOMAIN parameters :
           \E pat \in SuspiciousPatterns : Contains(parameters[k], pat)
    THEN "Suspicious pattern in parameter"
    ELSE "None"

RECURSIVE ConvertNamedToPositional(_, _)
\* convert_named_to_positional(query, parameters): every {{name}} becomes %s
\* and its value is appended, in the order of the placeholders; a name that
\* the map lacks raises ValueError("Missing parameter")
ConvertNamedToPositional(q, parameters) ==
    IF q = <<>> THEN [ok |-> TRUE, query |-> <<>>, values |-> <<>>]
    ELSE LET rest == ConvertNamedToPositional(Tail(q), parameters)
         IN  IF Head(q) \notin Placeholders
             THEN [rest EXCEPT !.query = <<Head(q)>> \o @]
             ELSE IF PlaceholderName(Head(q)) \notin DOMAIN parameters
                  THEN [ok |-> FALSE, query |-> <<>>, values |-> <<>>]
             ELSE IF ~rest.ok THEN rest
             ELSE [ok |-> TRUE,
                   query |-> <<"%s">> \o rest.query,
                   values |-> <<parameters[PlaceholderName(Head(q))]>> \o rest.values]

-----------------------------------------------------------------------------
(* Query execution: mcp_server/tools/sql_query.py *)

\* MAX_RESULT_ROWS
MAX_RESULT_ROWS == 1000

\* SQL_TIMEOUT_SECONDS
SQL_TIMEOUT_SECONDS == 30

\* max_rows not given
NoMax == -1

\* a statement sent to the database: its text, the number of the LIMIT
\* clause appended to it (0: none) and the values bound to its %s
Statement(text, limit, values) == [text |-> text, limit |-> limit, values |-> values]

SetReadOnly == Statement(<<"SET", "TRANSACTION", "READ", "ONLY">>, 0, <<>>)

SetTimeout == Statement(<<"SET", "STATEMENT_TIMEOUT", "30s">>, 0, <<>>)

\* the first n elements of s
FirstN(s, n) == SubSeq(s, 1, IF n < Len(s) THEN n ELSE Len(s))

\* the tokens that end one statement and hold a second one, COMMIT (the text
\* "SELECT 1;COMMIT" is the two tokens SELECT and 1;COMMIT)
CommitTexts == {"1;COMMIT"}

\* what the database answers to the caller's statement: a statement that
\* still holds a {{name}}, or anything behind COMMIT (an appended LIMIT
\* clause included), is a syntax error; otherwise the environment db decides; cursor.fetchall() after
\* COMMIT has no results to fetch; an appended LIMIT cuts the rows
DbError(stmt, db) ==
    IF \E i \in 1..Len(stmt.text) : stmt.text[i] \in Placeholders THEN "syntax"
    ELSE IF \E i \in 1..Len(stmt.text) :
                 stmt.text[i] \in CommitTexts /\ (i < Len(stmt.text) \/ stmt.limit > 0)
         THEN "syntax"
    ELSE IF db.error # "none" THEN db.error
    ELSE IF \E i \in 1..Len(stmt.text) : stmt.text[i] \in CommitTexts THEN "no_results"
    ELSE "none"

\* the statement text is parsed as a whole and run statement by statement: a
\* COMMIT in it ends the transaction of the connection
Committed(stmt, db) ==
    /\ \E i \in 1..Len(stmt.text) : stmt.text[i] \in CommitTexts
    /\ DbError(stmt, db) = "no_results"

DbRows(stmt, db) == IF stmt.limit > 0 THEN FirstN(db.rows, stmt.limit) ELSE db.rows

\* what a call of execute_sql_query did and how it ended:
\*   outcome   "ok", "ValueError" (a rejection) or "Exception"
\*   kind      which rejection or failure
\*   connects  connections opened, closes connections closed
\*   sent      the statements sent to the database, in order
SqlResult(outcome, kind, connects, closes, sent, results, truncated) ==
    [outcome |-> outcome, kind |-> kind, connects |-> connects, closes |-> closes,
     sent |-> sent, results |-> results, truncated |-> truncated]

\* raise ValueError(...) before the try block: nothing was opened or sent
Rejected(kind) == SqlResult("ValueError", kind, 0, 0, <<>>, <<>>, FALSE)

\* lines 385-466: the statement runs on a connection of get_db_connection.
\* A psycopg2.Error raised inside the with block is caught by the except
\* clause of get_db_connection, which raises Exception("Failed to connect to
\* database: ..."); execute_sql_query catches that in "except Exception".
RunOnConnection(stmt, max_rows, mask_pii, explain_only, db) ==
    IF ~db.connect
    THEN SqlResult("Exception", "execution_failed:connect", 0, 0, <<>>, <<>>, FALSE)
    ELSE LET sent == <<SetReadOnly, SetTimeout, stmt>>
             err == DbError(stmt, db)
             fetched == DbRows(stmt, db)
             truncated == Len(fetched) > max_rows
             results == IF truncated THEN FirstN(fetched, max_rows) ELSE fetched
             masked == MaskQueryResults(results)
         IN  IF err # "none"
             THEN SqlResult("Exception", "execution_failed:connect:" \o err,
                            1, 1, sent, <<>>, FALSE)
             ELSE IF explain_only
             THEN SqlResult("ok", "query_plan", 1, 1, sent, <<>>, FALSE)
             ELSE IF mask_pii /\ results # <<>>
             THEN IF masked.raised
                  THEN SqlResult("Exception", "execution_failed:IndexError",
                                 1, 1, sent, <<>>, FALSE)
                  ELSE SqlResult("ok", "rows", 1, 1, sent, masked.rows, truncated)
             ELSE SqlResult("ok", "rows", 1, 1, sent, results, truncated)

\* the tokens whose text contains LIMIT: the keyword, and an identifier
LimitTexts == {"LIMIT", "CREDIT_LIMIT"}

\* 'LIMIT' in query.upper(): a substring test on the whole text
HasLimitText(q) == \E i \in DOMAIN q : q[i] \in LimitTexts

\* lines 363-378: the row cap, the parameter conversion and the LIMIT clause
PrepareAndRun(q, parameters, mask_pii, max_rows, explain_only, db) ==
    LET m == IF max_rows = NoMax THEN MAX_RESULT_ROWS
             ELSE IF max_rows > MAX_RESULT_ROWS THEN MAX_RESULT_ROWS
             ELSE max_rows
        conv == IF DOMAIN parameters # {}
                THEN ConvertNamedToPositional(q, parameters)
                ELSE [ok |-> TRUE, query |-> q, values |-> <<>>]
        text == DropTrailing(conv.query, {";"})
        stmt == IF ~HasLimitText(conv.query) /\ m # 0
                THEN Statement(text, m + 1, conv.values)
                ELSE Statement(conv.query, 0, conv.values)
    IN  IF ~conv.ok THEN Rejected("missing_parameter")
        ELSE RunOnConnection(stmt, m, mask_pii, explain_only, db)

\* the same, with the parameter conversion moved inside the with block
ExecuteSqlQuery_ConvertOnConnection(q, parameters, mask_pii, max_rows, explain_only, db) ==
    IF Strip(q) = <<>> THEN Rejected("empty")
    ELSE IF ~IsReadOnly(q) THEN Rejected("not_read_only")
    ELSE IF ValidateSqlQuery(q) # "None" THEN Rejected("dangerous_pattern")
    ELSE IF DOMAIN parameters # {} /\ ValidateParameters(parameters) # "None"
         THEN Rejected("suspicious_parameter")
    ELSE LET r == PrepareAndRun(q, parameters, mask_pii, max_rows, explain_only, db)
         IN  IF r.kind = "missing_parameter" /\ db.connect
             THEN [r EXCEPT !.connects = 1, !.closes = 1, !.sent = <<SetReadOnly>>]
             ELSE r

\* execute_sql_query(query, parameters, mask_pii, max_rows, explain_only)
\* against a database that behaves as db says
ExecuteSqlQuery(q, parameters, mask_pii, max_rows, explain_only, db) ==
    IF Strip(q) = <<>> THEN Rejected("empty")
    ELSE IF ~IsReadOnly(q) THEN Rejected("not_read_only")
    ELSE IF ValidateSqlQuery(q) # "None" THEN Rejected("dangerous_pattern")
    ELSE IF DOMAIN parameters # {} /\ ValidateParameters(parameters) # "None"
         THEN Rejected("suspicious_parameter")
    ELSE PrepareAndRun(q, parameters, mask_pii, max_rows, explain_only, db)

-----------------------------------------------------------------------------
(* Knowledge-base search: mcp_server/tools/kb_search.py *)

\* similarity scores and floors are counted in tenths
FLOOR_LOW == 3

\* valid_categories
ValidCategories == {"product_guide", "support_doc", "reference_doc", "general"}

\* no category filter (None or an empty string: both are falsy)
NoCategory == ""

\* search_knowledge_base(query, top_k, filter_category, min_similarity) on a
\* corpus listed by descending similarity: the top_k chunks at or above the
\* floor, of the category when one is given
SearchKnowledgeBase(corpus, top_k, category, floor) ==
    LET Match(c) == /\ c.similarity >= floor
                    /\ (category # NoCategory => c.category = category)
    IN  FirstN(SelectSeq(corpus, Match), top_k)

\* what a call of search_knowledge_base did: its outcome, the connections it
\* opened and closed, and the chunks it returns
VectorResult(outcome, connects, closes, results) ==
    [outcome |-> outcome, connects |-> connects, closes |-> closes, results |-> results]

\* search_knowledge_base against a backend that behaves as backend says:
\* psycopg2.connect at line 63 raises before anything is opened; cur.execute
\* at line 95 raises past the conn.close() of line 100, which no finally
\* clause guards; otherwise both lines 99-100 run
SearchKnowledgeBaseOn(corpus, top_k, category, floor, backend) ==
    IF ~backend.connect THEN VectorResult("OperationalError", 0, 0, <<>>)
    ELSE IF backend.error # "none" THEN VectorResult("Error", 1, 0, <<>>)
    ELSE VectorResult("ok", 1, 1, SearchKnowledgeBase(corpus, top_k, category, floor))

\* what a call of search_knowledge_base_tool did: outcome "ok", "ValueError"
\* or "Exception", the backend searches it made as <<floor, category>> in
\* order, and the chunks it returns
KbResult(outcome, searches, results) ==
    [outcome |-> outcome, searches |-> searches, results |-> results]

\* search_knowledge_base_tool as it would be if the final attempt did not
\* look at the results of the attempts before it
KbSearchTool_FinalAttemptAlways(q, top_k, category, min_similarity, kb) ==
    LET r0 == SearchKnowledgeBase(kb.corpus, top_k, category, min_similarity)
        s0 == <<<<min_similarity, category>>>>
        try1 == r0 = <<>> /\ min_similarity > FLOOR_LOW
        r1 == IF try1 THEN SearchKnowledgeBase(kb.corpus, top_k, category, FLOOR_LOW) ELSE r0
        s1 == IF try1 THEN Append(s0, <<FLOOR_LOW, category>>) ELSE s0
        try2 == r0 = <<>> /\ r1 = <<>> /\ category # NoCategory
        s2 == IF try2 THEN Append(s1, <<FLOOR_LOW, NoCategory>>) ELSE s1
    IN  IF r0 # <<>> THEN KbResult("ok", s0, r0)
        ELSE KbResult("ok", Append(s2, <<0, NoCategory>>),
                      SearchKnowledgeBase(kb.corpus, top_k, NoCategory, 0))

\* search_knowledge_base_tool(query, top_k, category, min_similarity) with
\* enable_fallback left at True; kb.up says whether the backend answers
KbSearchTool(q, top_k, category, min_similarity, kb) ==
    IF Strip(q) = <<>> THEN KbResult("ValueError", <<>>, <<>>)
    ELSE IF top_k < 1 \/ top_k > 20 THEN KbResult("ValueError", <<>>, <<>>)
    ELSE IF min_similarity < 0 \/ min_similarity > 10 THEN KbResult("ValueError", <<>>, <<>>)
    ELSE IF category # NoCategory /\ category \notin ValidCategories
         THEN KbResult("ValueError", <<>>, <<>>)
    ELSE IF ~kb.up THEN KbResult("Exception", <<<<min_similarity, category>>>>, <<>>)
    ELSE
      LET r0 == SearchKnowledgeBase(kb.corpus, top_k, category, min_similarity)
          s0 == <<<<min_similarity, category>>>>
          try1 == r0 = <<>> /\ min_similarity > FLOOR_LOW
          r1 == IF try1 THEN SearchKnowledgeBase(kb.corpus, top_k, category, FLOOR_LOW) ELSE r0
          s1 == IF try1 THEN Append(s0, <<FLOOR_LOW, category>>) ELSE s0
          try2 == r0 = <<>> /\ r1 = <<>> /\ category # NoCategory
          r2 == IF try2 THEN SearchKnowledgeBase(kb.corpus, top_k, NoCategory, FLOOR_LOW) ELSE r1
          s2 == IF try2 THEN Append(s1, <<FLOOR_LOW, NoCategory>>) ELSE s1
          try3 == r0 = <<>> /\ r2 = <<>>
          r3 == IF try3 THEN SearchKnowledgeBase(kb.corpus, top_k, NoCategory, 0) ELSE r2
          s3 == IF try3 THEN Append(s2, <<0, NoCategory>>) ELSE s2
      IN  KbResult("ok", s3, r3)

-----------------------------------------------------------------------------
(* KPI lookup: mcp_server/tools/kpi_tools.py *)

\* the first year get_top_root_causes accepts
KPI_MIN_YEAR == 2020

\* datetime.now().year
CurrentYear == 2026

\* an optional integer: <<>> is None, <<n>> is n
NoInt == <<>>

\* no severity_filter (None or an empty string: both are falsy)
NoSeverity == ""

\* line 99: the severities, and str.lower() on the values a caller sends
Severities == {"critical", "high", "medium", "low"}

Lower(s) == IF s = "HIGH" THEN "high" ELSE s

\* what a call of get_top_root_causes did: its outcome, the connections it
\* opened and closed, and the rows it returns
KpiResult(outcome, connects, closes, results) ==
    [outcome |-> outcome, connects |-> connects, closes |-> closes, results |-> results]

\* get_top_root_causes(year, month, top_n, severity_filter) against a mart
\* that behaves as db says; a year of None fails the comparison (TypeError);
\* the connection of get_db_connection is closed in its finally clause
GetTopRootCausesBy(year, month, top_n, severity_filter, db) ==
    IF year = NoInt THEN KpiResult("TypeError", 0, 0, <<>>)
    ELSE IF year[1] < KPI_MIN_YEAR \/ year[1] > CurrentYear + 1
         THEN KpiResult("ValueError", 0, 0, <<>>)
    ELSE IF month # NoInt /\ month[1] # 0 /\ (month[1] < 1 \/ month[1] > 12)
         THEN KpiResult("ValueError", 0, 0, <<>>)
    ELSE IF top_n < 1 \/ top_n > 100
         THEN KpiResult("ValueError", 0, 0, <<>>)
    ELSE IF severity_filter # NoSeverity /\ Lower(severity_filter) \notin Severities
         THEN KpiResult("ValueError", 0, 0, <<>>)
    ELSE IF ~db.connect THEN KpiResult("Exception", 0, 0, <<>>)
    ELSE IF db.error # "none" THEN KpiResult("Exception", 1, 1, <<>>)
    ELSE KpiResult("ok", 1, 1,
                   [i \in 1..Len(FirstN(db.rows, top_n)) |-> [root_cause |-> i]])

\* get_top_root_causes(year, month, top_n, category_filter), as the
\* dispatcher calls it
GetTopRootCauses(year, month, top_n, db) ==
    GetTopRootCausesBy(year, month, top_n, NoSeverity, db)

-----------------------------------------------------------------------------
(* The dispatcher: mcp_server/server.py *)

\* the keys of TOOLS_REGISTRY
TOOLS_REGISTRY == {"sql.query", "kb.search", "kpi.top_root_causes"}

\* parameters.get(key, default)
Get(parameters, key, default) ==
    IF key \in DOMAIN parameters THEN parameters[key] ELSE default

\* an HTTP response of /tools/call: 200 with the ToolCallResponse, or 500
\* with the error as detail
Ok200(result) == [status |-> 200, success |-> TRUE, result |-> result, detail |-> "None"]

Err500(detail) == [status |-> 500, success |-> FALSE, result |-> <<>>, detail |-> detail]

\* the sql.query branch of call_tool (lines 192-197): max_rows and
\* explain_only are not passed on
CallSqlQuery(parameters, env) ==
    LET r == ExecuteSqlQuery(Get(parameters, "query", <<>>),
                             Get(parameters, "parameters", NoParams),
                             Get(parameters, "mask_pii", TRUE),
                             NoMax, FALSE, env.db)
    IN  IF r.outcome = "ok"
        THEN Ok200([results |-> r.results, row_count |-> Len(r.results),
                    truncated |-> r.truncated])
        ELSE Err500(r.kind)

\* the kb.search branch of call_tool (lines 199-205)
CallKbSearch(parameters, env) ==
    LET r == KbSearchTool(Get(parameters, "query", <<>>),
                          Get(parameters, "top_k", 5),
                          Get(parameters, "category", NoCategory),
                          Get(parameters, "min_similarity", 7),
                          env.kb)
    IN  IF r.outcome = "ok" THEN Ok200(r.results) ELSE Err500(r.outcome)

\* the kpi.top_root_causes branch of call_tool (lines 207-213)
CallKpi(parameters, env) ==
    LET r == GetTopRootCauses(Get(parameters, "year", NoInt),
                              Get(parameters, "month", NoInt),
                              Get(parameters, "top_n", 10),
                              env.db)
    IN  IF r.outcome = "ok" THEN Ok200(r.results) ELSE Err500(r.outcome)

\* call_tool(request): every exception, the HTTPException for an unknown
\* tool included, leaves as status 500
CallTool(tool, parameters, env) ==
    IF tool \notin TOOLS_REGISTRY THEN Err500("Tool not found")
    ELSE IF tool = "sql.query" THEN CallSqlQuery(parameters, env)
    ELSE IF tool = "kb.search" THEN CallKbSearch(parameters, env)
    ELSE CallKpi(parameters, env)

-----------------------------------------------------------------------------
(* The orchestrator: fastapi_app/core/tool_orchestrator.py *)

\* mcp_tool_map
McpToolId(tool_name) ==
    CASE tool_name = "sql_query" -> "sql.query"
      [] tool_name = "kb_search" -> "kb.search"
      [] tool_name = "kpi_top_root_causes" -> "kpi.top_root_causes"
      [] OTHER -> "None"

\* a ToolCall: has_result says whether result is set (is not None); error is
\* "None" or the message
ToolCallOk(tool_name, arguments, result) ==
    [tool_name |-> tool_name, parameters |-> arguments, has_result |-> TRUE,
     result |-> result, error |-> "None"]

ToolCallFailed(tool_name, arguments, error) ==
    [tool_name |-> tool_name, parameters |-> arguments, has_result |-> FALSE,
     result |-> <<>>, error |-> error]

\* arguments.get(key) is truthy, for an integer argument
Truthy(arguments, key) == key \in DOMAIN arguments /\ arguments[key] # 0

\* lines 149-196: the arguments of kpi_top_root_causes mapped to year, month,
\* top_n; a date is [valid, y, m]. ok is FALSE when no year can be derived.
KpiParams(arguments) ==
    LET hasStart == "start_date" \in DOMAIN arguments
        hasEnd == "end_date" \in DOMAIN arguments
        year0 == IF Truthy(arguments, "year") THEN arguments["year"] ELSE 0
        month0 == IF Truthy(arguments, "month") THEN arguments["month"] ELSE 0
        year == IF year0 = 0 /\ hasStart /\ arguments["start_date"].valid
                THEN arguments["start_date"].y ELSE year0
        sameMonth == /\ hasStart /\ hasEnd
                     /\ arguments["start_date"].valid /\ arguments["end_date"].valid
                     /\ arguments["start_date"].y = arguments["end_date"].y
                     /\ arguments["start_date"].m = arguments["end_date"].m
        month == IF sameMonth THEN arguments["start_date"].m ELSE month0
        base == [k \in {"year"} |-> <<year>>]
        withMonth == IF month # 0
                     THEN [k \in {"year", "month"} |-> IF k = "year" THEN <<year>> ELSE <<month>>]
                     ELSE base
    IN  [ok |-> year # 0,
         params |-> IF Truthy(arguments, "top_n")
                    THEN [k \in DOMAIN withMonth \cup {"top_n"} |->
                             IF k = "top_n" THEN arguments["top_n"] ELSE withMonth[k]]
                    ELSE withMonth]

\* lines 201-211: the POST to /tools/call and what comes back
PostToolCall(tool_name, arguments, tool, parameters, env) ==
    IF env.net # "ok" THEN ToolCallFailed(tool_name, arguments, "transport failure")
    ELSE LET resp == CallTool(tool, parameters, env)
         IN  IF resp.status # 200
             THEN ToolCallFailed(tool_name, arguments, "HTTP 500: " \o resp.detail)
             ELSE ToolCallOk(tool_name, arguments,
                             [success |-> resp.success, result |-> resp.result])

\* the try block of execute_tool (lines 134-216): every exception inside it
\* becomes the error of the ToolCall
TryExecuteTool(tool_name, arguments, env) ==
    IF McpToolId(tool_name) = "None"
    THEN ToolCallFailed(tool_name, arguments, "Unknown tool")
    ELSE IF tool_name = "kpi_top_root_causes"
    THEN LET kpi == KpiParams(arguments)
         IN  IF ~kpi.ok
             THEN ToolCallFailed(tool_name, arguments, "kpi_top_root_causes requires a year")
             ELSE PostToolCall(tool_name, arguments, McpToolId(tool_name), kpi.params, env)
    ELSE PostToolCall(tool_name, arguments, McpToolId(tool_name), arguments, env)

\* arguments that are no mapping (a JSON list, string or null) are written
\* as the one record with the key "#list"
NotAMapping == [k \in {"#list"} |-> TRUE]

IsMapping(arguments) == "#list" \notin DOMAIN arguments

\* execute_tool with the unknown-tool check moved in front of the try block
ExecuteTool_UnknownToolRaises(tool_name, arguments, env) ==
    IF ~IsMapping(arguments) \/ McpToolId(tool_name) = "None"
    THEN [raised |-> TRUE, call |-> ToolCallFailed(tool_name, arguments, "raised")]
    ELSE [raised |-> FALSE, call |-> TryExecuteTool(tool_name, arguments, env)]

\* execute_tool(tool_name, arguments): the ToolCall is constructed in front
\* of the try block (line 129), where a parameters value that is no mapping
\* fails validation and the exception leaves execute_tool
ExecuteTool(tool_name, arguments, env) ==
    IF ~IsMapping(arguments)
    THEN [raised |-> TRUE, call |-> ToolCallFailed(tool_name, arguments, "ValidationError")]
    ELSE [raised |-> FALSE, call |-> TryExecuteTool(tool_name, arguments, env)]

-----------------------------------------------------------------------------
(* Conversation store: fastapi_app/core/conversation.py *)

\* ConversationManager(max_history = 10)
max_history == 10

\* the last n elements of s
LastN(s, n) == IF Len(s) <= n THEN s ELSE SubSeq(s, Len(s) - n + 1, Len(s))

IsSystem(m) == m.role = "system"

NotSystem(m) == m.role # "system"

\* Message(role, content, tool_calls, citations); an absent list (None) is
\* written <<>>
Message(role, content, tools, citations) ==
    [role |-> role, content |-> content, tool_calls |-> tools, citations |-> citations]

\* add_message as it would be if trimming kept the max_history most recent
\* messages whatever their role
AppendMessage_TrimsAnyRole(msgs, message) ==
    LastN(Append(msgs, message), max_history)

\* lines 101-116 of add_message: append the message, then trim to the system
\* messages followed by the max_history most recent other messages
AppendMessage(msgs, message) ==
    LET appended == Append(msgs, message)
    IN  IF Len(appended) > max_history
        THEN SelectSeq(appended, IsSystem) \o LastN(SelectSeq(appended, NotSystem), max_history)
        ELSE appended

\* add_message(role, content) on the messages of an existing conversation
AddMessage(msgs, role, content) == AppendMessage(msgs, Message(role, content, <<>>, <<>>))

\* the id of the n-th conversation the store creates: "conv_" and a uuid
ConvId(n) == "conv_" \o ToString(n)

\* self.conversations = {}
NoConversations == [id \in {} |-> <<>>]

\* create_conversation() when n conversations were created before
CreateConversation(store, n) ==
    [id \in DOMAIN store \cup {ConvId(n + 1)} |->
        IF id = ConvId(n + 1) THEN [messages |-> <<>>] ELSE store[id]]

\* add_message that drops the tool calls and citations of the message
StoreAddMessage_ContentOnly(store, id, role, content, tools, citations) ==
    [store EXCEPT ![id].messages = AppendMessage(@, Message(role, content, <<>>, <<>>))]

\* add_message(conversation_id, role, content, tool_calls, citations) for an
\* id that the store holds
StoreAddMessage(store, id, role, content, tools, citations) ==
    [store EXCEPT ![id].messages = AppendMessage(@, Message(role, content, tools, citations))]

\* get_context as it would be if it handed out the tool calls stored with a
\* message
GetContext_WithToolCalls(msgs) ==
    [i \in DOMAIN msgs |-> [role |-> msgs[i].role, content |-> msgs[i].content,
                            tool_calls |-> msgs[i].tool_calls]]

\* get_context(conversation_id): role and content of every message
GetContext(msgs) == [i \in DOMAIN msgs |-> [role |-> msgs[i].role, content |-> msgs[i].content]]

-----------------------------------------------------------------------------
(* The conversation store with expiry: fastapi_app/core/conversation.py.
   A stored conversation is [messages, user_id, updated_at]; time is in hours *)

\* ttl_hours of __init__
ttl_hours == 24

\* a user_id of None
NoUser == ""

\* _is_expired(conversation) at time t
IsExpired(conversation, t) == t > conversation.updated_at + ttl_hours

\* del self.conversations[id] for the ids
Without(store, ids) == [id \in DOMAIN store \ ids |-> store[id]]

\* create_conversation(user_id) at time t when n conversations were created
\* before
CreateConversationAt(store, n, user_id, t) ==
    [id \in DOMAIN store \cup {ConvId(n + 1)} |->
        IF id = ConvId(n + 1)
        THEN [messages |-> <<>>, user_id |-> user_id, updated_at |-> t]
        ELSE store[id]]

\* get_conversation without the check of _is_expired
GetConversation_IgnoresExpiry(store, id, t) ==
    [found |-> id \in DOMAIN store, store |-> store]

\* get_conversation(conversation_id) at time t: found says whether a
\* conversation (store[id]) is returned; an expired one is deleted
GetConversation(store, id, t) ==
    IF id \notin DOMAIN store THEN [found |-> FALSE, store |-> store]
    ELSE IF IsExpired(store[id], t) THEN [found |-> FALSE, store |-> Without(store, {id})]
    ELSE [found |-> TRUE, store |-> store]

\* add_message(conversation_id, role, content) at time t: for an id that
\* get_conversation does not return, create_conversation() stores a
\* conversation under a new id and self.conversations[conversation_id] raises
\* KeyError
AddMessageAt(store, n, id, role, content, t) ==
    LET got == GetConversation(store, id, t)
    IN  IF got.found
        THEN [raised |-> FALSE, created |-> n,
              store |-> [got.store EXCEPT
                            ![id].messages = AppendMessage(@, Message(role, content, <<>>, <<>>)),
                            ![id].updated_at = t]]
        ELSE [raised |-> TRUE, created |-> n + 1,
              store |-> CreateConversationAt(got.store, n, NoUser, t)]

\* get_context(conversation_id) at time t
GetContextAt(store, id, t) ==
    LET got == GetConversation(store, id, t)
    IN  [store |-> got.store,
         context |-> IF got.found THEN GetContext(store[id].messages) ELSE <<>>]

\* the summary of a conversation that was not found
NotFoundSummary == [error |-> "Conversation not found"]

\* get_summary(conversation_id) at time t
GetSummary(store, id, t) ==
    LET got == GetConversation(store, id, t)
    IN  [store |-> got.store,
         summary |-> IF got.found
                     THEN [conversation_id |-> id, user_id |-> store[id].user_id,
                           updated_at |-> store[id].updated_at,
                           message_count |-> Len(store[id].messages)]
                     ELSE NotFoundSummary]

\* delete_conversation(conversation_id)
DeleteConversation(store, id) ==
    [store |-> Without(store, {id}), deleted |-> id \in DOMAIN store]

\* cleanup_expired() at time t
CleanupExpired(store, t) ==
    LET expired == {id \in DOMAIN store : IsExpired(store[id], t)}
    IN  [store |-> Without(store, expired), count |-> Cardinality(expired)]

\* sort(key=updated_at, reverse=True): descending, equal keys in their
\* original order
SortByUpdatedDesc(summaries) ==
    LET Rank(i) == Cardinality({j \in DOMAIN summaries :
                       \/ summaries[j].updated_at > summaries[i].updated_at
                       \/ summaries[j].updated_at = summaries[i].updated_at /\ j < i}) + 1
    IN  [r \in DOMAIN summaries |-> summaries[CHOOSE i \in DOMAIN summaries : Rank(i) = r]]

\* list_conversations(user_id, limit) at time t when n conversations were
\* created: the loop walks self.conversations.values() in insertion order;
\* get_summary of an expired conversation deletes it from the dict being
\* walked, and the next step of the loop raises RuntimeError (dictionary
\* changed size during iteration)
ListConversations(store, n, user_id, limit, t) ==
    LET order == SelectSeq([k \in 1..n |-> ConvId(k)], LAMBDA id : id \in DOMAIN store)
        listed == SelectSeq(order, LAMBDA id : user_id = NoUser \/ store[id].user_id = user_id)
        stale == {i \in DOMAIN listed : IsExpired(store[listed[i]], t)}
        first == CHOOSE i \in stale : \A j \in stale : i <= j
        summaries == [i \in DOMAIN listed |-> GetSummary(store, listed[i], t).summary]
    IN  IF stale # {}
        THEN [raised |-> TRUE, store |-> Without(store, {listed[first]}), result |-> <<>>]
        ELSE [raised |-> FALSE, store |-> store,
              result |-> FirstN(SortByUpdatedDesc(summaries), limit)]

-----------------------------------------------------------------------------
(* The turn: process_question_stream of fastapi_app/app.py *)

ValidRole(m) == m.role \in {"user", "assistant", "system", "function"}

\* validate_messages(context)
ValidateMessages(context) == SelectSeq(context, ValidRole)

\* json.dumps(tool_call.result, indent=2): the text that spells the value out
JsonDumps(value) == ToString(value)

\* the content folded for a tool call without a result
NoDataNotice == "Tool executed successfully but returned no data."

\* lines 253-270: the function-role message folded for one executed tool; the
\* content is a list of text pieces
FoldedMessage(tool_call) ==
    [role |-> "function", name |-> tool_call.tool_name,
     content |-> IF tool_call.has_result THEN <<JsonDumps(tool_call.result)>>
                 ELSE <<NoDataNotice>>]

\* lines 238-250: the tool_call event of one executed tool
ToolCallEvent(tool_call) ==
    [type |-> "tool_call", tool_name |-> tool_call.tool_name,
     parameters |-> tool_call.parameters, error |-> tool_call.error]

\* the tool_call events are emitted last result first
ToolEventSource_Reversed(executed, k) == executed[Len(executed) - k + 1]

\* line 238: the k-th tool_call event is built from the k-th executed tool
ToolEventSource(executed, k) == executed[k]

\* the final stream is offered the tools again
StreamTools_Offered == TRUE

\* line 283 (and 341): tools=None in the streaming call
StreamTools == FALSE

\* extract_citations for one executed tool: the keys "results" and "rows" are
\* looked up in the response envelope
CitationsOf(tool_call) ==
    IF tool_call.error # "None" THEN <<>>
    ELSE IF tool_call.tool_name = "kb_search"
    THEN IF tool_call.has_result /\ "results" \in DOMAIN tool_call.result
         THEN [i \in DOMAIN tool_call.result["results"] |-> [source |-> "Product KB"]]
         ELSE <<>>
    ELSE IF tool_call.tool_name = "sql_query"
    THEN IF tool_call.has_result /\ "rows" \in DOMAIN tool_call.result
         THEN <<[source |-> "Support Database Query"]>>
         ELSE <<>>
    ELSE IF tool_call.tool_name = "kpi_top_root_causes"
    THEN IF tool_call.has_result THEN <<[source |-> "Root Cause Analysis KPI"]>> ELSE <<>>
    ELSE <<>>

RECURSIVE ExtractCitations(_)
\* extract_citations(tool_calls)
ExtractCitations(executed) ==
    IF executed = <<>> THEN <<>>
    ELSE CitationsOf(Head(executed)) \o ExtractCitations(Tail(executed))

\* the events of one type
EventsOfType(evts, type) == SelectSeq(evts, LAMBDA e : e.type = type)

-----------------------------------------------------------------------------
(* SpecGate: the gate on every query of up to MaxGateLen tokens *)

\* the tokens the gate's input is built from: the two statement keywords the
\* claims are about, a word that is no keyword of the gate (SET, VACUUM,
\* COMMIT, an identifier), and the punctuation the gate looks at
GateTokens == {"SELECT", "DROP", "w", ";", "--", "/*", "*/", "'", "\n"}

GateIdle ==
    /\ query = <<>>
    /\ verdict = "none"

SqlIdle ==
    /\ sqlIn = [called |-> FALSE]
    /\ sqlOut = [outcome |-> "idle"]

ToolsIdle ==
    /\ tool_calls = <<>>
    /\ tool_results = <<>>
    /\ envs = <<>>
    /\ toolsPc = "idle"

\* no function was called
PureIdle ==
    /\ fnCall = [op |-> "none"]
    /\ fnRet = [op |-> "none"]

\* no question was asked
ConvIdle == asked = <<>>

\* no call on the store was made
StoreIdle ==
    /\ now = 0
    /\ lastOp = [op |-> "none"]

\* no turns are in flight
RaceIdle == turns = <<>>

\* no turn is running
TurnIdle ==
    /\ pc = "idle"
    /\ resume = "idle"
    /\ events = <<>>
    /\ messages = <<>>
    /\ conversations = NoConversations
    /\ conversation_id = ""
    /\ created = 0
    /\ accumulated_text = <<>>
    /\ response = <<>>
    /\ exec_results = <<>>
    /\ executed_tools = <<>>
    /\ llm_calls = <<>>
    /\ execRuns = 0
    /\ cancelled = FALSE

GateInit ==
    /\ GateIdle
    /\ SqlIdle
    /\ ToolsIdle
    /\ TurnIdle
    /\ PureIdle
    /\ ConvIdle
    /\ StoreIdle
    /\ RaceIdle

\* the caller writes one more token of the query
GateAppend(t) ==
    /\ verdict = "none"
    /\ Len(query) < MaxGateLen
    /\ query' = Append(query, t)
    /\ UNCHANGED <<verdict, sqlVars, toolVars, turnVars, fnVars, convVars, storeVars, raceVars>>

\* execute_sql_query's gate runs on the query
GateRun ==
    /\ verdict = "none"
    /\ verdict' = GateOf(query)
    /\ UNCHANGED <<query, sqlVars, toolVars, turnVars, fnVars, convVars, storeVars, raceVars>>

GateNext ==
    \/ \E t \in GateTokens : GateAppend(t)
    \/ GateRun

SpecGate == GateInit /\ [][GateNext]_vars

-----------------------------------------------------------------------------
(* SpecSql: one call of execute_sql_query, for every argument and every
   behaviour of the database within the bounds *)

SqlTokens == {"SELECT", "DROP", "PG_SLEEP", "{{a}}", "LIMIT", "CREDIT_LIMIT", "1;COMMIT"}

SqlQueries == SeqsUpTo(SqlTokens, MaxSqlLen)

\* parameter maps: none, a plain value, a value with a ";", and a map that
\* lacks the name a
SqlParams ==
    {NoParams,
     [k \in {"a"} |-> <<"v">>],
     [k \in {"a"} |-> <<"1", ";">>],
     [k \in {"b"} |-> <<"v">>]}

\* max_rows: not given, zero, below and above MAX_RESULT_ROWS
SqlMaxRows == {NoMax, 0, 1, MAX_RESULT_ROWS + 1}

\* rows the database may hold
SampleRows ==
    {[email |-> <<"j", "o", "@", "d">>, customer_uuid |-> <<"u", "1", "2">>],
     [email |-> <<"@", "d">>, customer_uuid |-> <<"u", "1", "2">>],
     [phone |-> <<"0", "8", "1", "2", "3">>, full_name |-> None]}

\* the behaviours of the database: unreachable, failing the statement, or
\* answering it with rows
DbEnvs ==
    {[connect |-> FALSE, error |-> "none", rows |-> <<>>]}
    \cup {[connect |-> TRUE, error |-> e, rows |-> <<>>] :
              e \in {"timeout", "permission", "other"}}
    \cup {[connect |-> TRUE, error |-> "none", rows |-> r] :
              r \in SeqsUpTo(SampleRows, MaxDbRows)}

SqlInit ==
    /\ GateIdle
    /\ SqlIdle
    /\ ToolsIdle
    /\ TurnIdle
    /\ PureIdle
    /\ ConvIdle
    /\ StoreIdle
    /\ RaceIdle

\* a caller calls execute_sql_query
SqlExecute ==
    /\ sqlOut.outcome = "idle"
    /\ \E q \in SqlQueries, p \in SqlParams, mp \in BOOLEAN, mr \in SqlMaxRows,
          ex \in BOOLEAN, db \in DbEnvs :
          /\ sqlIn' = [called |-> TRUE, query |-> q, parameters |-> p,
                       mask_pii |-> mp, max_rows |-> mr, explain_only |-> ex,
                       db |-> db]
          /\ sqlOut' = ExecuteSqlQuery(q, p, mp, mr, ex, db)
    /\ UNCHANGED <<gateVars, toolVars, turnVars, fnVars, convVars, storeVars, raceVars>>

SqlNext == SqlExecute

SpecSql == SqlInit /\ [][SqlNext]_vars

-----------------------------------------------------------------------------
(* SpecTools: one call of execute_tools, for every list of up to MaxTools
   requests and every behaviour of the network, the dispatcher's database and
   the knowledge base at each request *)

\* a date argument: whether strptime accepts it, and its year and month
Date(valid, y, m) == [valid |-> valid, y |-> y, m |-> m]

\* the argument mappings the model may supply, per tool name
ToolRequests ==
    {[name |-> "sql_query", arguments |-> a] :
        a \in {[query |-> <<"SELECT">>],
               [query |-> <<"SELECT">>, mask_pii |-> FALSE],
               [query |-> <<"SELECT">>, limit |-> 1],
               [query |-> <<"SELECT", "{{a}}">>, parameters |-> [k \in {"a"} |-> <<"v">>]],
               [query |-> <<"DROP">>],
               [limit |-> 5]}}
    \cup {[name |-> "kb_search", arguments |-> a] :
        a \in {[query |-> <<"w">>],
               [query |-> <<"w">>, top_k |-> 0],
               [query |-> <<"w">>, category |-> "support_doc"]}}
    \cup {[name |-> "kpi_top_root_causes", arguments |-> a] :
        a \in {[start_date |-> Date(TRUE, 2026, 1), end_date |-> Date(TRUE, 2026, 1)],
               [start_date |-> Date(FALSE, 0, 0), end_date |-> Date(TRUE, 2026, 2)],
               [year |-> 2019, top_n |-> 3]}}
    \cup {[name |-> "sql.query", arguments |-> [query |-> <<"SELECT">>]],
          [name |-> "sql_query", arguments |-> NotAMapping]}

\* the knowledge base: chunks by descending similarity
SampleCorpus ==
    <<[similarity |-> 8, category |-> "product_guide", text |-> "guide"],
      [similarity |-> 2, category |-> "support_doc", text |-> "faq"]>>

\* what one request meets: the network between orchestrator and dispatcher,
\* the dispatcher's database and the knowledge base
ToolEnvs ==
    {[net |-> "down", db |-> [connect |-> FALSE, error |-> "none", rows |-> <<>>],
      kb |-> [up |-> FALSE, corpus |-> <<>>]],
     [net |-> "ok", db |-> [connect |-> FALSE, error |-> "none", rows |-> <<>>],
      kb |-> [up |-> FALSE, corpus |-> <<>>]],
     [net |-> "ok", db |-> [connect |-> TRUE, error |-> "other", rows |-> <<>>],
      kb |-> [up |-> TRUE, corpus |-> <<>>]],
     [net |-> "ok", db |-> [connect |-> TRUE, error |-> "none", rows |-> <<>>],
      kb |-> [up |-> TRUE, corpus |-> SampleCorpus]],
     [net |-> "ok",
      db |-> [connect |-> TRUE, error |-> "none",
              rows |-> <<[email |-> <<"j", "o", "@", "d">>,
                          customer_uuid |-> <<"u", "1", "2">>],
                         [email |-> <<"a", "l", "@", "d">>,
                          customer_uuid |-> <<"u", "3", "4">>]>>],
      kb |-> [up |-> TRUE, corpus |-> SampleCorpus]]}

ToolsInit ==
    /\ GateIdle
    /\ SqlIdle
    /\ ToolsIdle
    /\ TurnIdle
    /\ PureIdle
    /\ ConvIdle
    /\ StoreIdle
    /\ RaceIdle

\* execute_tools(tool_calls) is called: results = []
ToolsCall ==
    /\ toolsPc = "idle"
    /\ \E calls \in SeqsUpTo(ToolRequests, MaxTools) : tool_calls' = calls
    /\ toolsPc' = "loop"
    /\ UNCHANGED <<tool_results, envs, gateVars, sqlVars, turnVars, fnVars, convVars, storeVars, raceVars>>

\* one pass of the for loop: await execute_tool, results.append(result); an
\* exception that leaves execute_tool leaves execute_tools
ToolsExecuteNext ==
    /\ toolsPc = "loop"
    /\ Len(tool_results) < Len(tool_calls)
    /\ \E env \in ToolEnvs :
          LET tool_call == tool_calls[Len(tool_results) + 1]
              r == ExecuteTool(tool_call.name, tool_call.arguments, env)
          IN  /\ envs' = Append(envs, env)
              /\ IF r.raised
                 THEN toolsPc' = "raised" /\ UNCHANGED tool_results
                 ELSE toolsPc' = toolsPc /\ tool_results' = Append(tool_results, r.call)
    /\ UNCHANGED <<tool_calls, gateVars, sqlVars, turnVars, fnVars, convVars, storeVars, raceVars>>

\* the loop is over: return results
ToolsReturn ==
    /\ toolsPc = "loop"
    /\ Len(tool_results) = Len(tool_calls)
    /\ toolsPc' = "returned"
    /\ UNCHANGED <<tool_calls, tool_results, envs, gateVars, sqlVars, turnVars, fnVars, convVars, storeVars, raceVars>>

ToolsNext ==
    \/ ToolsCall
    \/ ToolsExecuteNext
    \/ ToolsReturn

SpecTools == ToolsInit /\ [][ToolsNext]_vars

-----------------------------------------------------------------------------
(* SpecTurn: one turn of process_question_stream, for every first model
   response of up to MaxTools tool calls, every outcome of each tool, every
   streamed answer of up to MaxChunks chunks, a model call that raises, and
   a cancellation at every await *)

\* the tool calls a first model response may request
TurnRequests ==
    {[name |-> "sql_query", arguments |-> [query |-> <<"SELECT">>]],
     [name |-> "kb_search", arguments |-> [query |-> <<"w">>]],
     [name |-> "kpi_top_root_causes",
      arguments |-> [start_date |-> Date(TRUE, 2026, 1), end_date |-> Date(TRUE, 2026, 1)]],
     [name |-> "sql_query", arguments |-> NotAMapping]}

\* what a tool call of the turn meets: the dispatcher out of reach, or
\* everything answering
TurnEnvs ==
    {[net |-> "down", db |-> [connect |-> FALSE, error |-> "none", rows |-> <<>>],
      kb |-> [up |-> FALSE, corpus |-> <<>>]],
     [net |-> "ok", db |-> [connect |-> TRUE, error |-> "none", rows |-> <<>>],
      kb |-> [up |-> TRUE, corpus |-> SampleCorpus]]}

\* the conversation before the turn: new, or holding an earlier exchange
TurnHistories ==
    {<<>>,
     <<[role |-> "user", content |-> <<"q0">>],
       [role |-> "assistant", content |-> <<"a0">>]>>}

otherVars == <<gateVars, sqlVars, toolVars, fnVars, convVars, storeVars, raceVars>>

TurnInit ==
    /\ GateIdle
    /\ SqlIdle
    /\ ToolsIdle
    /\ PureIdle
    /\ ConvIdle
    /\ StoreIdle
    /\ RaceIdle
    /\ pc = "ask"
    /\ resume = "ask"
    /\ events = <<>>
    /\ messages = <<>>
    /\ \E history \in TurnHistories :
          IF history = <<>>
          THEN conversations = NoConversations /\ created = 0
          ELSE /\ conversations = [id \in {ConvId(1)} |-> [messages |-> history]]
               /\ created = 1
    /\ conversation_id = ""
    /\ accumulated_text = <<>>
    /\ response = <<>>
    /\ exec_results = <<>>
    /\ executed_tools = <<>>
    /\ llm_calls = <<>>
    /\ execRuns = 0
    /\ cancelled = FALSE

\* yield an event; the await asyncio.sleep(0) behind it is pending
Emit(event, next) ==
    /\ events' = Append(events, event)
    /\ pc' = "flush"
    /\ resume' = next

\* lines 390-397: the outermost handler yields the error event
OuterError ==
    /\ events' = Append(events, [type |-> "error", content |-> "Unexpected error"])
    /\ pc' = "flush_handler"
    /\ resume' = "end"

\* where the turn goes on after the stream: lines 313 and 360
AfterStream == IF response # <<>> THEN "citations" ELSE "persist"

\* the ids a caller may send: none (""), one of its own making, or the id of
\* a stored conversation
CallerIds == {"", "mine"} \cup DOMAIN conversations

\* ask_question, lines 407-414: an absent id is replaced by a new conversation
TurnAsk ==
    /\ pc = "ask"
    /\ \E id \in CallerIds :
          IF id = ""
          THEN /\ conversations' = CreateConversation(conversations, created)
               /\ created' = created + 1
               /\ conversation_id' = ConvId(created + 1)
          ELSE /\ conversation_id' = id
               /\ UNCHANGED <<conversations, created>>
    /\ pc' = "start"
    /\ UNCHANGED <<resume, events, messages, accumulated_text, response, exec_results,
                   executed_tools, llm_calls, execRuns, cancelled, otherVars>>

\* lines 176-210: get or create the conversation, store the user message,
\* build the context, first status
TurnBegin ==
    /\ pc = "start"
    /\ LET found == conversation_id \in DOMAIN conversations
           id == IF found THEN conversation_id ELSE ConvId(created + 1)
           store == IF found THEN conversations
                    ELSE CreateConversation(conversations, created)
       IN  /\ conversation_id' = id
           /\ created' = IF found THEN created ELSE created + 1
           /\ conversations' = StoreAddMessage(store, id, "user", <<"q">>, <<>>, <<>>)
           /\ messages' = ValidateMessages(GetContext(conversations'[id].messages))
    /\ Emit([type |-> "status", content |-> "Analyzing your question..."], "generate")
    /\ UNCHANGED <<accumulated_text, response, exec_results, executed_tools,
                   llm_calls, execRuns, cancelled, otherVars>>

\* an await asyncio.sleep(0) returns
TurnResume ==
    /\ pc \in {"flush", "flush_handler"}
    /\ pc' = resume
    /\ UNCHANGED <<resume, events, messages, conversations, conversation_id,
                   created, accumulated_text, response,
                   exec_results, executed_tools, llm_calls, execRuns, cancelled, otherVars>>

\* lines 213-226: llm_client.generate(tools=tools) returns a response
TurnGenerateReturns ==
    /\ pc = "generate"
    /\ llm_calls' = Append(llm_calls, [op |-> "generate", tools |-> TRUE, messages |-> messages])
    /\ \E calls \in SeqsUpTo(TurnRequests, MaxTools) :
          /\ response' = calls
          /\ IF calls # <<>>
             THEN Emit([type |-> "status", content |-> "Executing tool(s)..."], "execute_tools")
             ELSE pc' = "stream" /\ UNCHANGED <<events, resume>>
    /\ UNCHANGED <<messages, conversations, conversation_id,
                   created, accumulated_text, exec_results,
                   executed_tools, execRuns, cancelled, otherVars>>

\* llm_client.generate raises
TurnGenerateRaises ==
    /\ pc = "generate"
    /\ llm_calls' = Append(llm_calls, [op |-> "generate", tools |-> TRUE, messages |-> messages])
    /\ OuterError
    /\ UNCHANGED <<messages, conversations, conversation_id,
                   created, accumulated_text, response, exec_results,
                   executed_tools, execRuns, cancelled, otherVars>>

\* line 231: execute_tools is called
TurnExecuteTools ==
    /\ pc = "execute_tools"
    /\ execRuns' = execRuns + 1
    /\ exec_results' = <<>>
    /\ pc' = "execute_loop"
    /\ UNCHANGED <<resume, events, messages, conversations, conversation_id,
                   created, accumulated_text, response,
                   executed_tools, llm_calls, cancelled, otherVars>>

\* one pass of the loop of execute_tools
TurnExecuteNext ==
    /\ pc = "execute_loop"
    /\ Len(exec_results) < Len(response)
    /\ \E env \in TurnEnvs :
          LET request == response[Len(exec_results) + 1]
              r == ExecuteTool(request.name, request.arguments, env)
          IN  IF r.raised
              THEN OuterError /\ UNCHANGED exec_results
              ELSE /\ exec_results' = Append(exec_results, r.call)
                   /\ UNCHANGED <<pc, resume, events>>
    /\ UNCHANGED <<messages, conversations, conversation_id,
                   created, accumulated_text, response,
                   executed_tools, llm_calls, execRuns, cancelled, otherVars>>

\* execute_tools returns its results
TurnExecuteReturn ==
    /\ pc = "execute_loop"
    /\ Len(exec_results) = Len(response)
    /\ executed_tools' = exec_results
    /\ pc' = "tool_events"
    /\ UNCHANGED <<resume, events, messages, conversations, conversation_id,
                   created, accumulated_text, response,
                   exec_results, llm_calls, execRuns, cancelled, otherVars>>

\* lines 238-250: the next tool_call event
TurnEmitToolCall ==
    /\ pc = "tool_events"
    /\ LET k == Len(EventsOfType(events, "tool_call")) + 1
       IN  /\ k <= Len(executed_tools)
           /\ Emit(ToolCallEvent(ToolEventSource(executed_tools, k)), "tool_events")
    /\ UNCHANGED <<messages, conversations, conversation_id,
                   created, accumulated_text, response, exec_results,
                   executed_tools, llm_calls, execRuns, cancelled, otherVars>>

\* lines 253-274: fold every result into the context, then the status event
TurnFold ==
    /\ pc = "tool_events"
    /\ Len(EventsOfType(events, "tool_call")) = Len(executed_tools)
    /\ messages' = messages \o [i \in DOMAIN executed_tools |-> FoldedMessage(executed_tools[i])]
    /\ Emit([type |-> "status", content |-> "Generating insights..."], "stream")
    /\ UNCHANGED <<conversations, conversation_id, created, accumulated_text, response, exec_results,
                   executed_tools, llm_calls, execRuns, cancelled, otherVars>>

\* lines 280-285 and 338-343: llm_client.stream(messages, tools=None)
TurnStreamCall ==
    /\ pc = "stream"
    /\ llm_calls' = Append(llm_calls, [op |-> "stream", tools |-> StreamTools,
                                       messages |-> messages])
    /\ pc' = "streaming"
    /\ UNCHANGED <<resume, events, messages, conversations, conversation_id,
                   created, accumulated_text, response,
                   exec_results, executed_tools, execRuns, cancelled, otherVars>>

\* a text chunk arrives
TurnStreamText ==
    /\ pc = "streaming"
    /\ Len(accumulated_text) < MaxChunks
    /\ accumulated_text' = Append(accumulated_text, "t")
    /\ Emit([type |-> "text", content |-> "t"], "streaming")
    /\ UNCHANGED <<messages, conversations, conversation_id, created, response, exec_results, executed_tools,
                   llm_calls, execRuns, cancelled, otherVars>>

\* the done chunk arrives, or the stream ends
TurnStreamDone ==
    /\ pc = "streaming"
    /\ pc' = AfterStream
    /\ UNCHANGED <<resume, events, messages, conversations, conversation_id,
                   created, accumulated_text, response,
                   exec_results, executed_tools, llm_calls, execRuns, cancelled, otherVars>>

\* lines 304-311 and 362-369: the stream raises; the handler around the
\* stream yields an error event, and the turn goes on behind the handler
TurnStreamRaises ==
    /\ pc = "streaming"
    /\ Emit([type |-> "error", content |-> "Streaming error"], AfterStream)
    /\ UNCHANGED <<messages, conversations, conversation_id,
                   created, accumulated_text, response, exec_results,
                   executed_tools, llm_calls, execRuns, cancelled, otherVars>>

\* lines 314-320: the next citation event
TurnEmitCitation ==
    /\ pc = "citations"
    /\ LET k == Len(EventsOfType(events, "citation")) + 1
       IN  /\ k <= Len(ExtractCitations(executed_tools))
           /\ Emit([type |-> "citation", data |-> ExtractCitations(executed_tools)[k]],
                   "citations")
    /\ UNCHANGED <<messages, conversations, conversation_id,
                   created, accumulated_text, response, exec_results,
                   executed_tools, llm_calls, execRuns, cancelled, otherVars>>

\* lines 326-332 or 372-376, then 379-383: store the assistant message and
\* yield done; there is no await in between
TurnPersist ==
    /\ \/ pc = "persist"
       \/ /\ pc = "citations"
          /\ Len(EventsOfType(events, "citation")) = Len(ExtractCitations(executed_tools))
    /\ conversations' = StoreAddMessage(conversations, conversation_id, "assistant",
                                        accumulated_text, executed_tools,
                                        IF response # <<>>
                                        THEN ExtractCitations(executed_tools) ELSE <<>>)
    /\ Emit([type |-> "done", tool_calls_count |-> Len(executed_tools),
             conversation_id |-> conversation_id], "end")
    /\ UNCHANGED <<conversation_id, created, messages, accumulated_text, response, exec_results, executed_tools,
                   llm_calls, execRuns, cancelled, otherVars>>

\* lines 386-388: CancelledError is raised at an await inside the try block
\* and the handler yields the cancelled event
TurnCancel ==
    /\ pc \in {"flush", "generate", "execute_loop", "streaming"}
    /\ cancelled' = TRUE
    /\ events' = Append(events, [type |-> "cancelled", content |-> "Request cancelled"])
    /\ pc' = "end"
    /\ UNCHANGED <<resume, messages, conversations, conversation_id,
                   created, accumulated_text, response,
                   exec_results, executed_tools, llm_calls, execRuns, otherVars>>

\* line 397: CancelledError raised at the await inside the outermost
\* handler leaves the generator
TurnCancelInHandler ==
    /\ pc = "flush_handler"
    /\ cancelled' = TRUE
    /\ pc' = "end"
    /\ UNCHANGED <<resume, events, messages, conversations, conversation_id,
                   created, accumulated_text, response,
                   exec_results, executed_tools, llm_calls, execRuns, otherVars>>

\* the consumer closes the generator while it stands at a yield: GeneratorExit
\* is caught by neither handler and no further event is yielded
TurnAbandon ==
    /\ pc \in {"flush", "flush_handler"}
    /\ pc' = "closed"
    /\ UNCHANGED <<resume, events, messages, conversations, conversation_id,
                   created, accumulated_text, response,
                   exec_results, executed_tools, llm_calls, execRuns, cancelled, otherVars>>

TurnNext ==
    \/ TurnAsk
    \/ TurnBegin
    \/ TurnResume
    \/ TurnGenerateReturns
    \/ TurnGenerateRaises
    \/ TurnExecuteTools
    \/ TurnExecuteNext
    \/ TurnExecuteReturn
    \/ TurnEmitToolCall
    \/ TurnFold
    \/ TurnStreamCall
    \/ TurnStreamText
    \/ TurnStreamDone
    \/ TurnStreamRaises
    \/ TurnEmitCitation
    \/ TurnPersist
    \/ TurnCancel
    \/ TurnCancelInHandler
    \/ TurnAbandon

SpecTurn == TurnInit /\ [][TurnNext]_vars

-----------------------------------------------------------------------------
(* SpecPure: single calls of the functions that depend on their arguments
   only, for every argument within the bounds *)

\* the tokens of a template: a word, the two placeholders, and the text %s
\* (as in LIKE '%s...')
TemplateTokens == {"w", "{{a}}", "{{b}}", "%s"}

\* parameter maps with both names, with one of them, and with equal values
TemplateParams ==
    {[k \in {"a", "b"} |-> IF k = "a" THEN <<"1">> ELSE <<"2">>],
     [k \in {"a", "b"} |-> <<"1">>],
     [k \in {"a"} |-> <<"1">>],
     [k \in {"b"} |-> <<"2">>]}

PureInit ==
    /\ GateIdle
    /\ SqlIdle
    /\ ToolsIdle
    /\ TurnIdle
    /\ PureIdle
    /\ ConvIdle
    /\ StoreIdle
    /\ RaceIdle

\* a call of convert_named_to_positional(query, parameters)
PureConvert ==
    /\ fnCall.op = "none"
    /\ \E q \in SeqsUpTo(TemplateTokens, MaxTemplateLen), p \in TemplateParams :
          /\ fnCall' = [op |-> "convert", query |-> q, parameters |-> p]
          /\ fnRet' = ConvertNamedToPositional(q, p)
    /\ UNCHANGED <<gateVars, sqlVars, toolVars, turnVars, convVars, storeVars, raceVars>>

\* rows for mask_query_results: the sample rows, and a row with an empty
\* string and None under PII field names
MaskRows ==
    SampleRows \cup {[email |-> <<>>, phone |-> None]}

\* a call of mask_query_results(results)
PureMask ==
    /\ fnCall.op = "none"
    /\ \E r \in SeqsUpTo(MaskRows, MaxMaskRows) :
          /\ fnCall' = [op |-> "mask", results |-> r]
          /\ fnRet' = MaskQueryResults(r)
    /\ UNCHANGED <<gateVars, sqlVars, toolVars, turnVars, convVars, storeVars, raceVars>>

\* chunks of the knowledge base
KbChunks ==
    {[similarity |-> 8, category |-> "product_guide", text |-> "guide"],
     [similarity |-> 4, category |-> "product_guide", text |-> "fees"],
     [similarity |-> 4, category |-> "support_doc", text |-> "faq"],
     [similarity |-> 1, category |-> "support_doc", text |-> "misc"]}

\* the backend lists chunks by descending similarity
Descending(corpus) ==
    \A i \in 1..(Len(corpus) - 1) : corpus[i].similarity >= corpus[i + 1].similarity

KbCorpora == {c \in SeqsUpTo(KbChunks, MaxCorpusLen) : Descending(c)}

\* a call of search_knowledge_base_tool(query, top_k, category,
\* min_similarity) with enable_fallback left at True
PureKbSearch ==
    /\ fnCall.op = "none"
    /\ \E top_k \in {1, 2}, category \in {NoCategory, "product_guide", "general"},
          min_similarity \in {2, 5, 7}, corpus \in KbCorpora :
          /\ fnCall' = [op |-> "kb_search", top_k |-> top_k, category |-> category,
                        min_similarity |-> min_similarity, corpus |-> corpus]
          /\ fnRet' = KbSearchTool(<<"q">>, top_k, category, min_similarity,
                                   [up |-> TRUE, corpus |-> corpus])
    /\ UNCHANGED <<gateVars, sqlVars, toolVars, turnVars, convVars, storeVars, raceVars>>

\* the marts a KPI lookup meets: out of reach, failing the statement, empty,
\* and holding a row
KpiMarts ==
    {[connect |-> FALSE, error |-> "none", rows |-> <<>>],
     [connect |-> TRUE, error |-> "other", rows |-> <<>>],
     [connect |-> TRUE, error |-> "none", rows |-> <<>>],
     [connect |-> TRUE, error |-> "none", rows |-> <<[root_cause_name |-> "login"]>>]}

\* a call of get_top_root_causes(year, month, top_n, severity_filter)
PureKpi ==
    /\ fnCall.op = "none"
    /\ \E year \in {KPI_MIN_YEAR - 1, KPI_MIN_YEAR, CurrentYear + 1, CurrentYear + 2},
          month \in {NoInt, <<0 - 1>>, <<0>>, <<1>>, <<12>>, <<13>>},
          top_n \in {0, 1, 100, 101},
          severity_filter \in {NoSeverity, "high", "HIGH", "urgent"},
          db \in KpiMarts :
          /\ fnCall' = [op |-> "get_top_root_causes", year |-> year, month |-> month,
                        top_n |-> top_n, severity_filter |-> severity_filter, db |-> db]
          /\ fnRet' = GetTopRootCausesBy(<<year>>, month, top_n, severity_filter, db)
    /\ UNCHANGED <<gateVars, sqlVars, toolVars, turnVars, convVars, storeVars, raceVars>>

\* a call of search_knowledge_base(query, top_k, filter_category,
\* min_similarity) against a backend out of reach, failing the statement, or
\* answering
PureVectorSearch ==
    /\ fnCall.op = "none"
    /\ \E top_k \in {1, 2}, category \in {NoCategory, "product_guide"},
          min_similarity \in {FLOOR_LOW, 5}, corpus \in KbCorpora,
          backend \in {[connect |-> m.connect, error |-> m.error] : m \in KpiMarts} :
          /\ fnCall' = [op |-> "search_knowledge_base", top_k |-> top_k,
                        category |-> category, min_similarity |-> min_similarity,
                        corpus |-> corpus, backend |-> backend]
          /\ fnRet' = SearchKnowledgeBaseOn(corpus, top_k, category, min_similarity, backend)
    /\ UNCHANGED <<gateVars, sqlVars, toolVars, turnVars, convVars, storeVars, raceVars>>

\* one more add_message(conversation_id, role, content) on one conversation:
\* fnCall.appended lists every message appended so far, fnRet.messages is
\* what the conversation holds
PureAddMessage ==
    /\ fnCall.op \in {"none", "add_message"}
    /\ LET appended == IF fnCall.op = "none" THEN <<>> ELSE fnCall.appended
           held == IF fnCall.op = "none" THEN <<>> ELSE fnRet.messages
       IN  /\ Len(appended) < MaxAppends
           /\ \E role \in {"user", "system"} :
                 LET content == Len(appended) + 1
                 IN  /\ fnCall' = [op |-> "add_message",
                                   appended |-> Append(appended, Message(role, content, <<>>, <<>>))]
                     /\ fnRet' = [messages |-> AddMessage(held, role, content)]
    /\ UNCHANGED <<gateVars, sqlVars, toolVars, turnVars, convVars, storeVars, raceVars>>

PureNext ==
    \/ PureAddMessage
    \/ PureVectorSearch
    \/ PureKpi
    \/ PureConvert
    \/ PureMask
    \/ PureKbSearch

SpecPure == PureInit /\ [][PureNext]_vars

-----------------------------------------------------------------------------
(* SpecConv: a caller asks up to MaxTurns questions one after the other; each
   turn runs to its done event without tool calls *)

Questions == {<<"q1">>, <<"q2">>}

Answers == {<<"a1">>, <<"a2">>}

ConvInit ==
    /\ GateIdle
    /\ SqlIdle
    /\ ToolsIdle
    /\ PureIdle
    /\ ConvIdle
    /\ StoreIdle
    /\ RaceIdle
    /\ pc = "ask"
    /\ resume = "idle"
    /\ events = <<>>
    /\ messages = <<>>
    /\ conversations = NoConversations
    /\ conversation_id = ""
    /\ created = 0
    /\ accumulated_text = <<>>
    /\ response = <<>>
    /\ exec_results = <<>>
    /\ executed_tools = <<>>
    /\ llm_calls = <<>>
    /\ execRuns = 0
    /\ cancelled = FALSE

\* POST /ask with a question and a conversation_id (ask_question, lines
\* 407-414): an absent id is replaced by a new conversation
ConvAsk ==
    /\ pc = "ask"
    /\ Len(asked) < MaxTurns
    /\ \E id \in CallerIds, question \in Questions :
          /\ asked' = Append(asked, [caller_id |-> id, question |-> question,
                                     answered |-> FALSE, context |-> <<>>,
                                     answer |-> <<>>])
          /\ IF id = ""
             THEN /\ conversations' = CreateConversation(conversations, created)
                  /\ created' = created + 1
                  /\ conversation_id' = ConvId(created + 1)
             ELSE /\ conversation_id' = id
                  /\ UNCHANGED <<conversations, created>>
    /\ pc' = "start"
    /\ UNCHANGED <<resume, events, messages, accumulated_text, response, exec_results,
                   executed_tools, llm_calls, execRuns, cancelled,
                   gateVars, sqlVars, toolVars, fnVars, storeVars, raceVars>>

\* process_question_stream from its first line to the done event, for a first
\* model response without tool calls: get or create the conversation (lines
\* 180-186), store the user message, build the context (189-197), stream the
\* answer (330-345), store the assistant message (363-369)
ConvAnswer ==
    /\ pc = "start"
    /\ LET turn == asked[Len(asked)]
           found == conversation_id \in DOMAIN conversations
           id == IF found THEN conversation_id ELSE ConvId(created + 1)
           store == IF found THEN conversations
                    ELSE CreateConversation(conversations, created)
           withUser == StoreAddMessage(store, id, "user", turn.question, <<>>, <<>>)
           context == ValidateMessages(GetContext(withUser[id].messages))
       IN  \E answer \in Answers :
              /\ conversation_id' = id
              /\ created' = IF found THEN created ELSE created + 1
              /\ messages' = context
              /\ conversations' = StoreAddMessage(withUser, id, "assistant", answer, <<>>, <<>>)
              /\ asked' = [asked EXCEPT ![Len(asked)] =
                              [turn EXCEPT !.answered = TRUE, !.context = context,
                                           !.answer = answer]]
    /\ pc' = "ask"
    /\ UNCHANGED <<resume, events, accumulated_text, response, exec_results,
                   executed_tools, llm_calls, execRuns, cancelled,
                   gateVars, sqlVars, toolVars, fnVars, storeVars, raceVars>>

ConvNext ==
    \/ ConvAsk
    \/ ConvAnswer

SpecConv == ConvInit /\ [][ConvNext]_vars

-----------------------------------------------------------------------------
(* SpecStore: calls on the conversation store while time passes *)

\* the user ids of the callers
Users == {NoUser, "u1"}

\* the ids asked for: every id the store may generate, and one it never does
StoreIds == {ConvId(k) : k \in 1..MaxConvs} \cup {"mine"}

storeFrame == <<pc, resume, events, messages, conversation_id, accumulated_text,
                response, exec_results, executed_tools, llm_calls, execRuns, cancelled,
                gateVars, sqlVars, toolVars, fnVars, convVars, raceVars>>

StoreInit ==
    /\ GateIdle
    /\ SqlIdle
    /\ ToolsIdle
    /\ TurnIdle
    /\ PureIdle
    /\ ConvIdle
    /\ StoreIdle
    /\ RaceIdle

\* what a call on the store is recorded as: the call, the store and the time
\* it met, whether it raised, and what it returned
Called(op, arg, raised, result) ==
    [op |-> op, arg |-> arg, before |-> conversations, at |-> now,
     raised |-> raised, result |-> result]

\* a time-to-live passes
StoreTick ==
    /\ now < MaxTicks * ttl_hours
    /\ now' = now + ttl_hours
    /\ UNCHANGED <<lastOp, conversations, created, storeFrame>>

StoreCreate ==
    /\ created < MaxConvs
    /\ \E user_id \in Users :
          /\ conversations' = CreateConversationAt(conversations, created, user_id, now)
          /\ lastOp' = Called("create_conversation", user_id, FALSE, ConvId(created + 1))
    /\ created' = created + 1
    /\ UNCHANGED <<now, storeFrame>>

StoreGet ==
    /\ \E id \in StoreIds :
          LET got == GetConversation(conversations, id, now)
          IN  /\ conversations' = got.store
              /\ lastOp' = Called("get_conversation", id, FALSE,
                                  [found |-> got.found,
                                   conversation |-> IF got.found THEN conversations[id]
                                                    ELSE <<>>])
    /\ UNCHANGED <<now, created, storeFrame>>

StoreGetContext ==
    /\ \E id \in StoreIds :
          LET got == GetContextAt(conversations, id, now)
          IN  /\ conversations' = got.store
              /\ lastOp' = Called("get_context", id, FALSE, got.context)
    /\ UNCHANGED <<now, created, storeFrame>>

StoreGetSummary ==
    /\ \E id \in StoreIds :
          LET got == GetSummary(conversations, id, now)
          IN  /\ conversations' = got.store
              /\ lastOp' = Called("get_summary", id, FALSE, got.summary)
    /\ UNCHANGED <<now, created, storeFrame>>

StoreAdd ==
    /\ \E id \in StoreIds :
          /\ id \in DOMAIN conversations => conversations[id].messages = <<>>
          /\ id \notin DOMAIN conversations \/ IsExpired(conversations[id], now) =>
                created < MaxConvs
          /\ LET r == AddMessageAt(conversations, created, id, "user", <<"q">>, now)
             IN  /\ conversations' = r.store
                 /\ created' = r.created
                 /\ lastOp' = Called("add_message", id, r.raised, <<>>)
    /\ UNCHANGED <<now, storeFrame>>

StoreDelete ==
    /\ \E id \in StoreIds :
          LET r == DeleteConversation(conversations, id)
          IN  /\ conversations' = r.store
              /\ lastOp' = Called("delete_conversation", id, FALSE, r.deleted)
    /\ UNCHANGED <<now, created, storeFrame>>

StoreCleanup ==
    /\ LET r == CleanupExpired(conversations, now)
       IN  /\ conversations' = r.store
           /\ lastOp' = Called("cleanup_expired", <<>>, FALSE, r.count)
    /\ UNCHANGED <<now, created, storeFrame>>

StoreList ==
    /\ \E user_id \in Users, limit \in {1, 50} :
          LET r == ListConversations(conversations, created, user_id, limit, now)
          IN  /\ conversations' = r.store
              /\ lastOp' = Called("list_conversations",
                                  [user_id |-> user_id, limit |-> limit],
                                  r.raised, r.result)
    /\ UNCHANGED <<now, created, storeFrame>>

StoreNext ==
    \/ StoreTick
    \/ StoreCreate
    \/ StoreGet
    \/ StoreGetContext
    \/ StoreGetSummary
    \/ StoreAdd
    \/ StoreDelete
    \/ StoreCleanup
    \/ StoreList

SpecStore == StoreInit /\ [][StoreNext]_vars

-----------------------------------------------------------------------------
(* SpecRace: two turns of process_question_stream sent with the same
   conversation id run on one event loop. A turn runs from one await to the
   next without interruption; the other turn may run at every await. No
   conversation is deleted and none expires. *)

Racers == {1, 2}

\* the question of turn k and the text the model streams for it
QuestionOf(k) == <<"q" \o ToString(k)>>

AnswerOf(k) == <<"a" \o ToString(k)>>

\* what execute_tools returns to turn k: a search that found a chunk, or a
\* call that failed
ToolRunsOf(k) ==
    {<<ToolCallOk("kb_search", [query |-> QuestionOf(k)],
                  [results |-> <<[content |-> "chunk" \o ToString(k)]>>])>>,
     <<ToolCallFailed("kb_search", [query |-> QuestionOf(k)], "HTTP 500")>>}

\* the messages a conversation held before the two turns
EarlierMessages(n) ==
    [i \in 1..n |-> Message(IF i % 2 = 1 THEN "user" ELSE "assistant", <<"h">>, <<>>, <<>>)]

\* the locals of a turn: conversation_id, messages, executed_tools and
\* accumulated_text; with them the id the request was sent with and the
\* number of messages the conversation held before
RaceTurn(id, n) ==
    [pc |-> "start", sent |-> id, earlier |-> n, conversation_id |-> id, messages |-> <<>>,
     executed_tools |-> <<>>, accumulated_text |-> <<>>]

raceFrame == <<pc, resume, events, messages, conversation_id, accumulated_text,
               response, exec_results, executed_tools, llm_calls, execRuns, cancelled,
               gateVars, sqlVars, toolVars, fnVars, convVars, storeVars>>

RaceInit ==
    /\ GateIdle
    /\ SqlIdle
    /\ ToolsIdle
    /\ TurnIdle
    /\ PureIdle
    /\ ConvIdle
    /\ StoreIdle
    /\ RaceIdle

\* before the turns: the store holds one conversation with n earlier
\* messages, and two requests arrive with the same id, the stored one or one
\* of the caller's making
RaceArrive ==
    /\ turns = <<>>
    /\ \E id \in {ConvId(1), "mine"}, n \in {0, max_history - 3} :
          /\ conversations' = [CreateConversation(conversations, created)
                                  EXCEPT ![ConvId(1)].messages = EarlierMessages(n)]
          /\ turns' = [k \in Racers |-> RaceTurn(id, n)]
    /\ created' = created + 1
    /\ UNCHANGED raceFrame

\* app.py lines 176-197, which hold no await: get or create the conversation,
\* store the user message, build the context
RaceBegin(k) ==
    /\ turns # <<>>
    /\ turns[k].pc = "start"
    /\ LET found == turns[k].conversation_id \in DOMAIN conversations
           id == IF found THEN turns[k].conversation_id ELSE ConvId(created + 1)
           store == IF found THEN conversations
                    ELSE CreateConversation(conversations, created)
       IN  /\ conversations' = StoreAddMessage(store, id, "user", QuestionOf(k), <<>>, <<>>)
           /\ created' = IF found THEN created ELSE created + 1
           /\ turns' = [turns EXCEPT ![k].pc = "generate",
                                     ![k].conversation_id = id,
                                     ![k].messages =
                                         ValidateMessages(GetContext(conversations'[id].messages))]
    /\ UNCHANGED raceFrame

\* lines 213-236: await llm_client.generate returns, with tool calls or
\* without
RaceGenerate(k) ==
    /\ turns # <<>>
    /\ turns[k].pc = "generate"
    /\ \E next \in {"execute_tools", "stream"} :
          turns' = [turns EXCEPT ![k].pc = next]
    /\ UNCHANGED <<conversations, created, raceFrame>>

\* lines 390-398: generate or execute_tools raises and the turn ends with an
\* error event
RaceRaise(k) ==
    /\ turns # <<>>
    /\ turns[k].pc \in {"generate", "execute_tools"}
    /\ turns' = [turns EXCEPT ![k].pc = "error"]
    /\ UNCHANGED <<conversations, created, raceFrame>>

\* line 231: await execute_tools returns the executed tools
RaceExecuteTools(k) ==
    /\ turns # <<>>
    /\ turns[k].pc = "execute_tools"
    /\ \E executed \in ToolRunsOf(k) :
          turns' = [turns EXCEPT ![k].pc = "fold", ![k].executed_tools = executed]
    /\ UNCHANGED <<conversations, created, raceFrame>>

\* lines 238-270: after the tool_call events, the results are folded into the
\* turn's own messages
RaceFold(k) ==
    /\ turns # <<>>
    /\ turns[k].pc = "fold"
    /\ turns' = [turns EXCEPT
                    ![k].pc = "stream",
                    ![k].messages = @ \o [i \in DOMAIN turns[k].executed_tools |->
                                             FoldedMessage(turns[k].executed_tools[i])]]
    /\ UNCHANGED <<conversations, created, raceFrame>>

\* lines 280-311 and 338-358: the stream ends with its text, or raises, which
\* the inner handler answers with an error event before the turn goes on
RaceStream(k) ==
    /\ turns # <<>>
    /\ turns[k].pc = "stream"
    /\ \E text \in {AnswerOf(k), <<>>} :
          turns' = [turns EXCEPT ![k].pc = "persist", ![k].accumulated_text = text]
    /\ UNCHANGED <<conversations, created, raceFrame>>

\* lines 326-332 and 372-376, then done: the assistant message is stored
RacePersist(k) ==
    /\ turns # <<>>
    /\ turns[k].pc = "persist"
    /\ conversations' = StoreAddMessage(conversations, turns[k].conversation_id, "assistant",
                                        turns[k].accumulated_text, turns[k].executed_tools,
                                        ExtractCitations(turns[k].executed_tools))
    /\ turns' = [turns EXCEPT ![k].pc = "done"]
    /\ UNCHANGED <<created, raceFrame>>

\* lines 386-388: CancelledError is raised at the await the turn stands at
RaceCancel(k) ==
    /\ turns # <<>>
    /\ turns[k].pc \in {"generate", "execute_tools", "fold", "stream", "persist"}
    /\ turns' = [turns EXCEPT ![k].pc = "cancelled"]
    /\ UNCHANGED <<conversations, created, raceFrame>>

RaceStep(k) ==
    \/ RaceBegin(k)
    \/ RaceGenerate(k)
    \/ RaceRaise(k)
    \/ RaceExecuteTools(k)
    \/ RaceFold(k)
    \/ RaceStream(k)
    \/ RacePersist(k)
    \/ RaceCancel(k)

RaceNext ==
    \/ RaceArrive
    \/ \E k \in Racers : RaceStep(k)

SpecRace == RaceInit /\ [][RaceNext]_vars

-----------------------------------------------------------------------------
(* Claims about the gate *)

\* position i of q lies inside a quoted literal: an odd number of quotes
\* stand before it
InQuotes(q, i) == Cardinality({j \in 1..(i - 1) : q[j] = "'"}) % 2 = 1

\* the keywords the claim names
ClaimKeywords == {"INSERT", "UPDATE", "DELETE", "DROP", "ALTER", "CREATE", "TRUNCATE"}

\* q holds one of the claim's keywords as a whole word outside quoted literals
HasWriteKeyword(q) ==
    \E i \in 1..Len(q) : q[i] \in ClaimKeywords /\ ~InQuotes(q, i)

\* tokens that are words, as opposed to punctuation and white space
Words == {"SELECT", "WITH", "w"} \cup WriteKeywords \cup DangerousTokens

\* q holds a ";" outside quoted literals that a further statement follows
MultiStatement(q) ==
    \E i \in 1..Len(q) :
        /\ q[i] = ";"
        /\ ~InQuotes(q, i)
        /\ LET rest == DropLeading(From(q, i + 1), WhiteSpace)
           IN  rest # <<>> /\ Head(rest) \in Words

\* C1: every query that holds INSERT, UPDATE, DELETE, DROP, ALTER, CREATE or
\* TRUNCATE as a whole word outside quoted literals is rejected by the gate of
\* execute_sql_query, whatever else the query holds.
C1_WriteKeywordRejected ==
    (verdict # "none" /\ HasWriteKeyword(query)) => verdict # "ok"

\* C2: every query that holds more than one statement (a semicolon outside
\* quoted literals followed by a further statement) is rejected by the gate,
\* whatever word starts the second statement.
C2_MultiStatementRejected ==
    (verdict # "none" /\ MultiStatement(query)) => verdict # "ok"

\* the gate lets through a query whose write keyword is live SQL for the
\* database: the "--" that hides it from is_read_only stands inside a literal
LiveKeywordAccepted ==
    /\ query = <<"SELECT", "'", "--", "'", "DROP">>
    /\ verdict = "ok"

-----------------------------------------------------------------------------
(* Claims about execute_sql_query *)

\* the call's arguments are ones the checks of lines 341-361 turn down
ArgumentsTurnedDown ==
    \/ GateOf(sqlIn.query) # "ok"
    \/ /\ DOMAIN sqlIn.parameters # {}
       /\ ValidateParameters(sqlIn.parameters) # "None"

\* C3: in every call of execute_sql_query whose query or parameters are
\* rejected (empty query, not read-only, dangerous pattern, suspicious
\* parameter, missing parameter) no database connection is opened and no
\* statement is sent to the database.
C3_RejectedTouchesNoDatabase ==
    (sqlOut.outcome # "idle" /\ (sqlOut.outcome = "ValueError" \/ ArgumentsTurnedDown))
        => (sqlOut.outcome = "ValueError" /\ sqlOut.connects = 0 /\ sqlOut.sent = <<>>)

\* a call rejected at the last check before the connection (a missing
\* parameter) although the database was reachable
C3_Witness ==
    /\ sqlOut.outcome = "ValueError"
    /\ sqlOut.kind = "missing_parameter"
    /\ sqlIn.db.connect

-----------------------------------------------------------------------------
(* Claims about the orchestrator and the dispatcher *)

\* the rows a successful sql_query result carries
RowsOf(tool_call) == tool_call.result.result.results

\* C4: every successful sql_query result that came through the orchestrator
\* and the dispatcher carries the database's rows with their PII fields
\* masked, whatever arguments the model supplied.
C4_SqlResultsAlwaysMasked ==
    \A i \in DOMAIN tool_results :
        (tool_calls[i].name = "sql_query" /\ tool_results[i].has_result)
            => LET masked == MaskQueryResults(envs[i].db.rows)
               IN  ~masked.raised /\ RowsOf(tool_results[i]) = masked.rows

\* the unmasked e-mail address reaches the orchestrator
UnmaskedPiiReturned ==
    \E i \in DOMAIN tool_results :
        /\ tool_calls[i].name = "sql_query"
        /\ tool_results[i].has_result
        /\ RowsOf(tool_results[i]) # <<>>
        /\ RowsOf(tool_results[i])[1].email = <<"j", "o", "@", "d">>

\* every request carries an argument mapping
AllMappings == \A i \in DOMAIN tool_calls : IsMapping(tool_calls[i].arguments)

\* the request fails: unknown tool name, argument mapping failure, transport
\* failure or a response that is not 2xx
RequestFails(request, env) ==
    \/ request.name \notin {"sql_query", "kb_search", "kpi_top_root_causes"}
    \/ request.name = "kpi_top_root_causes" /\ ~KpiParams(request.arguments).ok
    \/ env.net # "ok"
    \/ /\ request.name = "sql_query"
       /\ CallTool("sql.query", request.arguments, env).status # 200
    \/ /\ request.name = "kb_search"
       /\ CallTool("kb.search", request.arguments, env).status # 200
    \/ /\ request.name = "kpi_top_root_causes" /\ KpiParams(request.arguments).ok
       /\ CallTool("kpi.top_root_causes", KpiParams(request.arguments).params, env).status # 200

\* C5: for a list of N requests with argument mappings execute_tools never
\* raises and returns exactly N results in request order; a request that
\* fails is a result with error set and no result, and the requests after it
\* are still executed.
C5_OneResultPerCallInOrder ==
    AllMappings =>
        /\ toolsPc # "raised"
        /\ Len(tool_results) <= Len(tool_calls)
        /\ toolsPc = "returned" => Len(tool_results) = Len(tool_calls)
        /\ \A i \in DOMAIN tool_results :
              /\ tool_results[i].tool_name = tool_calls[i].name
              /\ tool_results[i].parameters = tool_calls[i].arguments
              /\ RequestFails(tool_calls[i], envs[i])
                    <=> (tool_results[i].error # "None" /\ ~tool_results[i].has_result)
              /\ ~RequestFails(tool_calls[i], envs[i])
                    <=> (tool_results[i].error = "None" /\ tool_results[i].has_result)

C5_Witness ==
    /\ toolsPc = "returned"
    /\ Len(tool_calls) = MaxTools
    /\ Len(tool_results) = MaxTools
    /\ tool_calls[1].name = "sql.query"
    /\ tool_results[1].error = "Unknown tool"
    /\ envs[2].net = "ok"
    /\ tool_results[2].has_result

-----------------------------------------------------------------------------
(* Claims about the turn *)

TypesOf(evts) == [i \in DOMAIN evts |-> evts[i].type]

HasEvent(type) == \E i \in DOMAIN events : events[i].type = type

\* the turn ran to its done event and nothing failed on the way: no error
\* event, no cancellation, no tool call with error set
CompletedCleanly ==
    /\ HasEvent("done")
    /\ ~HasEvent("error")
    /\ ~cancelled
    /\ \A k \in DOMAIN executed_tools : executed_tools[k].error = "None"

\* the events are: lead status events, one tool_call event per request in
\* request order, one status event, the text events, the citation events, done
EventOrder(lead) ==
    LET n == Len(response)
        t == Len(EventsOfType(events, "text"))
        c == Len(EventsOfType(events, "citation"))
    IN  /\ TypesOf(events) =
              Repeat("status", lead) \o Repeat("tool_call", n) \o <<"status">>
                  \o Repeat("text", t) \o Repeat("citation", c) \o <<"done">>
        /\ \A k \in 1..n :
              /\ events[lead + k].tool_name = response[k].name
              /\ events[lead + k].parameters = response[k].arguments

\* C6 as stated: in a turn with N >= 1 requested tool calls in which nothing
\* fails the events are exactly status, N tool_call, status, text*,
\* citation*, done.
C6_EventOrderAsStated == (response # <<>> /\ CompletedCleanly) => EventOrder(1)

\* C6: in a turn with N >= 1 requested tool calls in which nothing fails the
\* events are exactly two status events ("Analyzing", "Executing"), then N
\* tool_call events in request order, then one status event, then the text
\* events, then the citation events, then done.
C6_EventOrder == (response # <<>> /\ CompletedCleanly) => EventOrder(2)

C6_Witness ==
    /\ pc = "end"
    /\ CompletedCleanly
    /\ Len(response) >= 2
    /\ response[1].name # response[2].name
    /\ Len(EventsOfType(events, "text")) >= 1
    /\ Len(EventsOfType(events, "citation")) >= 1

TerminalEvents == {i \in DOMAIN events : events[i].type \in {"done", "error", "cancelled"}}

\* the turn has appended its assistant message to the conversation
AssistantAppended ==
    /\ pc \notin {"ask", "start"}
    /\ conversations[conversation_id].messages[Len(conversations[conversation_id].messages)].role
          = "assistant"

\* C7: at most one terminal event (done, error, cancelled) is emitted, it is
\* the last event, and after an error event no assistant message is stored.
C7_OneTerminalEventLast ==
    /\ Cardinality(TerminalEvents) <= 1
    /\ TerminalEvents \subseteq {Len(events)}
    /\ HasEvent("error") => ~AssistantAppended

\* an error event followed by a done event, with the assistant message stored
ErrorThenDone ==
    /\ pc = "end"
    /\ ~cancelled
    /\ HasEvent("error")
    /\ events[Len(events)].type = "done"
    /\ AssistantAppended

\* C8: when CancelledError is raised at a suspension point of the turn, no
\* assistant message has been appended for it and the last event is cancelled.
C8_CancelledLeavesNoMessage ==
    cancelled => (~AssistantAppended /\ events[Len(events)].type = "cancelled")

\* cancelled behind the done event: the message is stored, done and
\* cancelled are both emitted
CancelledAfterDone ==
    /\ cancelled
    /\ ~HasEvent("error")
    /\ AssistantAppended
    /\ Len(events) >= 2
    /\ events[Len(events) - 1].type = "done"
    /\ events[Len(events)].type = "cancelled"

FunctionMessages(msgs) == SelectSeq(msgs, LAMBDA m : m.role = "function")

\* C9: tools are offered in at most one model call, the first; execute_tools
\* runs at most once; function messages enter the context only when every
\* requested tool call has finished; every streaming call is made without
\* tools.
C9_SingleToolRound ==
    /\ \A i \in DOMAIN llm_calls :
          /\ llm_calls[i].tools => (i = 1 /\ llm_calls[i].op = "generate")
          /\ llm_calls[i].op = "stream" => ~llm_calls[i].tools
          /\ FunctionMessages(llm_calls[i].messages) # <<>> =>
                Len(FunctionMessages(llm_calls[i].messages)) = Len(response)
    /\ execRuns <= 1
    /\ FunctionMessages(messages) # <<>> =>
          /\ execRuns = 1
          /\ executed_tools = exec_results
          /\ Len(executed_tools) = Len(response)
          /\ Len(FunctionMessages(messages)) = Len(response)

C9_Witness ==
    /\ pc = "end"
    /\ HasEvent("done")
    /\ Len(response) >= 2
    /\ Len(llm_calls) = 2
    /\ llm_calls[2].op = "stream"
    /\ Len(FunctionMessages(llm_calls[2].messages)) = Len(response)

\* the list of text pieces has the error among its pieces
Carries(content, error) == \E j \in DOMAIN content : content[j] = error

\* what is folded for a successful call that returned an empty result
EmptySuccessFold(tool_name) ==
    FoldedMessage(ToolCallOk(tool_name, <<>>, [success |-> TRUE, result |-> <<>>])).content

\* C10: for every tool call with error set, the function-role message in the
\* context of the second model call carries the error and differs from the
\* message folded for a successful call with an empty result.
C10_ErrorFoldedAsFailure ==
    \A i \in DOMAIN llm_calls :
        llm_calls[i].op = "stream" =>
            LET folded == FunctionMessages(llm_calls[i].messages)
            IN  \A k \in DOMAIN folded :
                    executed_tools[k].error # "None" =>
                        /\ Carries(folded[k].content, executed_tools[k].error)
                        /\ folded[k].content # EmptySuccessFold(executed_tools[k].tool_name)

\* a failed tool call reaches the second model call as "executed successfully"
FailureFoldedAsSuccess ==
    \E i \in DOMAIN llm_calls :
        /\ llm_calls[i].op = "stream"
        /\ \E k \in DOMAIN FunctionMessages(llm_calls[i].messages) :
              /\ executed_tools[k].error # "None"
              /\ FunctionMessages(llm_calls[i].messages)[k].content = <<NoDataNotice>>

\* the index of the done event
DoneIndex == CHOOSE i \in DOMAIN events : events[i].type = "done"

\* the content and data of the events of one type, in order
ContentsOf(type) ==
    LET es == EventsOfType(events, type) IN [i \in DOMAIN es |-> es[i].content]

DataOf(type) ==
    LET es == EventsOfType(events, type) IN [i \in DOMAIN es |-> es[i].data]

\* the messages of conversation id are an earlier history, the question of
\* this turn and one assistant message
HoldsTheTurn(id) ==
    LET ms == conversations[id].messages
    IN  /\ Len(ms) >= 2
        /\ SubSeq(ms, 1, Len(ms) - 2) \in TurnHistories
        /\ ms[Len(ms) - 1].role = "user"
        /\ ms[Len(ms) - 1].content = <<"q">>
        /\ ms[Len(ms)].role = "assistant"

\* C11: in every turn that emits done, exactly one assistant message is
\* appended, in the step that emits done and so behind every text and
\* citation event; its content is the text events in order, it carries the
\* executed tool calls and the citations emitted; done reports the number of
\* executed tool calls and the id of the conversation that holds the
\* messages of the turn. Before done no assistant message is appended.
C11_DonePersistsOneMessage ==
    /\ AssistantAppended => HasEvent("done")
    /\ HasEvent("done") =>
          LET done == events[DoneIndex]
              ms == conversations[done.conversation_id].messages
          IN  /\ \A i \in DOMAIN events :
                    i > DoneIndex => events[i].type \notin {"text", "citation", "done"}
              /\ done.conversation_id \in DOMAIN conversations
              /\ HoldsTheTurn(done.conversation_id)
              /\ \A id \in DOMAIN conversations \ {done.conversation_id} :
                    conversations[id].messages \in TurnHistories
              /\ ms[Len(ms)].content = ContentsOf("text")
              /\ ms[Len(ms)].tool_calls = executed_tools
              /\ ms[Len(ms)].citations = DataOf("citation")
              /\ done.tool_calls_count = Len(response)
              /\ done.tool_calls_count = Len(executed_tools)

C11_Witness ==
    /\ pc = "end"
    /\ HasEvent("done")
    /\ events[DoneIndex].conversation_id = ConvId(2)
    /\ Len(executed_tools) >= 2
    /\ Len(ContentsOf("text")) >= 2
    /\ Len(DataOf("citation")) >= 1

-----------------------------------------------------------------------------
(* Claims about the parameters of execute_sql_query *)

\* the query references a placeholder whose name the parameter map lacks
LacksReferencedName(q, parameters) ==
    \E i \in DOMAIN q : q[i] \in Placeholders /\ PlaceholderName(q[i]) \notin DOMAIN parameters

\* C12: every call of execute_sql_query whose query passes the gate and
\* references a placeholder that the parameter map lacks (the empty or
\* absent map included) fails with the missing-parameter error and sends no
\* statement to the database.
C12_MissingParameterRejected ==
    (/\ sqlOut.outcome # "idle"
     /\ ~ArgumentsTurnedDown
     /\ LacksReferencedName(sqlIn.query, sqlIn.parameters))
        => (/\ sqlOut.outcome = "ValueError"
            /\ sqlOut.kind = "missing_parameter"
            /\ sqlOut.sent = <<>>)

\* with no parameter map the template itself is sent to the database
TemplateSentUnconverted ==
    /\ sqlOut.outcome = "Exception"
    /\ DOMAIN sqlIn.parameters = {}
    /\ Len(sqlOut.sent) = 3
    /\ \E i \in DOMAIN sqlOut.sent[3].text : sqlOut.sent[3].text[i] = "{{a}}"

-----------------------------------------------------------------------------
(* Claims about convert_named_to_positional *)

\* the positions of s at which one of the tokens stands, in order
PositionsOf(s, tokens) ==
    LET idx == {i \in DOMAIN s : s[i] \in tokens}
        f[k \in 0..Cardinality(idx)] ==
            IF k = 0 THEN 0
            ELSE CHOOSE i \in idx : i > f[k - 1] /\ \A j \in idx : j > f[k - 1] => i <= j
    IN  [k \in 1..Cardinality(idx) |-> f[k]]

\* the parameter map has every name the template references
HasEveryName(q, parameters) ==
    \A i \in DOMAIN q : q[i] \in Placeholders => PlaceholderName(q[i]) \in DOMAIN parameters

\* C13: for a template and a parameter map with every referenced name,
\* convert_named_to_positional succeeds, the positional placeholders %s of
\* the statement are as many as the values and stand exactly where the
\* {{name}} stood, and the i-th value is the value of the i-th {{name}}.
C13_PlaceholdersBoundInOrder ==
    (fnCall.op = "convert" /\ HasEveryName(fnCall.query, fnCall.parameters)) =>
        LET named == PositionsOf(fnCall.query, Placeholders)
            positional == PositionsOf(fnRet.query, {"%s"})
        IN  /\ fnRet.ok
            /\ Len(fnRet.query) = Len(fnCall.query)
            /\ Len(positional) = Len(fnRet.values)
            /\ positional = named
            /\ \A i \in DOMAIN named :
                  fnRet.values[i] = fnCall.parameters[PlaceholderName(fnCall.query[named[i]])]

\* a template with the text %s and one placeholder: two positional
\* placeholders in the statement, one value
MorePositionalThanValues ==
    /\ fnCall.op = "convert"
    /\ fnCall.query = <<"w", "%s", "{{a}}">>
    /\ fnRet.ok
    /\ fnRet.query = <<"w", "%s", "%s">>
    /\ Len(fnRet.values) = 1

-----------------------------------------------------------------------------
(* Claims about the row limit *)

\* max_rows clamped to MAX_RESULT_ROWS
RowCap(max_rows) ==
    IF max_rows = NoMax \/ max_rows > MAX_RESULT_ROWS THEN MAX_RESULT_ROWS ELSE max_rows

\* the query has a row-limiting clause: the keyword LIMIT as a word
HasLimitClause(q) == \E i \in DOMAIN q : q[i] = "LIMIT"

\* the caller's statement reached the database
StatementSent == sqlOut.outcome # "idle" /\ Len(sqlOut.sent) = 3

\* C14: when the query has no row-limiting clause the statement sent is the
\* query with LIMIT m+1 appended, m being max_rows clamped to
\* MAX_RESULT_ROWS; the rows returned are at most m, and truncated is true
\* exactly when the database produced more than m rows.
C14_LimitAppendedAndCounted ==
    StatementSent =>
        LET m == RowCap(sqlIn.max_rows)
            stmt == sqlOut.sent[3]
        IN  /\ ~HasLimitClause(sqlIn.query) => stmt.limit = m + 1
            /\ (sqlOut.outcome = "ok" /\ sqlOut.kind = "rows") =>
                  /\ Len(sqlOut.results) <= m
                  /\ sqlOut.truncated <=> Len(DbRows(stmt, sqlIn.db)) > m

\* a query without a LIMIT clause goes to the database without one, the
\* requested cap being 1
UnlimitedStatementSent ==
    /\ StatementSent
    /\ sqlIn.query = <<"SELECT", "CREDIT_LIMIT">>
    /\ sqlIn.max_rows = 1
    /\ sqlOut.sent[3].limit = 0
    /\ Len(DbRows(sqlOut.sent[3], sqlIn.db)) = MaxDbRows

-----------------------------------------------------------------------------
(* Claims about the row limit of the sql_query tool *)

\* the default of limit in the schema of sql_query
DEFAULT_LIMIT == 100

\* C15: a successful sql_query tool call with argument limit = L returns at
\* most L rows, and at most DEFAULT_LIMIT rows when limit is omitted.
C15_ToolLimitCapsRows ==
    \A i \in DOMAIN tool_results :
        (tool_calls[i].name = "sql_query" /\ tool_results[i].has_result) =>
            Len(RowsOf(tool_results[i])) <= Get(tool_calls[i].arguments, "limit", DEFAULT_LIMIT)

\* limit = 1 was asked for and two rows came back
MoreRowsThanLimit ==
    \E i \in DOMAIN tool_results :
        /\ tool_calls[i].name = "sql_query"
        /\ "limit" \in DOMAIN tool_calls[i].arguments
        /\ tool_calls[i].arguments["limit"] = 1
        /\ tool_results[i].has_result
        /\ Len(RowsOf(tool_results[i])) = 2

-----------------------------------------------------------------------------
(* Claims about a statement timeout *)

\* the database cancelled the caller's statement on the statement timeout
StatementTimedOut ==
    /\ sqlOut.outcome # "idle"
    /\ Len(sqlOut.sent) = 3
    /\ DbError(sqlOut.sent[3], sqlIn.db) = "timeout"

\* C16: when the database cancels the statement on the statement timeout,
\* execute_sql_query fails with the error "Query timeout after
\* SQL_TIMEOUT_SECONDS seconds", not with a connection failure or a generic
\* error wrapping the driver's message.
C16_TimeoutReportedAsTimeout ==
    StatementTimedOut =>
        (sqlOut.outcome = "Exception" /\ sqlOut.kind = "query_timeout")

\* the timeout came back as "Query execution failed: Failed to connect to
\* database: ..."
TimeoutReportedAsConnectFailure ==
    /\ StatementTimedOut
    /\ sqlOut.outcome = "Exception"
    /\ sqlOut.kind = "execution_failed:connect:timeout"

-----------------------------------------------------------------------------
(* Claims about mask_query_results *)

\* C17: mask_query_results returns a result for every list of rows and never
\* raises, whatever the field names and values are.
C17_MaskingNeverRaises ==
    fnCall.op = "mask" => ~fnRet.raised

\* masking a row whose email value has an empty local part raised
MaskingRaisedOnEmptyLocalPart ==
    /\ fnCall.op = "mask"
    /\ \E i \in DOMAIN fnCall.results :
          /\ "email" \in DOMAIN fnCall.results[i]
          /\ fnCall.results[i]["email"] = <<"@", "d">>
    /\ fnRet.raised

-----------------------------------------------------------------------------
(* Claims about the fallback ladder of search_knowledge_base_tool *)

\* the rungs as the claim lists them: (0.3, same category), then
\* (0.3, no category) if a category was given, then (0.0, no category)
LadderAsStated(category) ==
    <<<<FLOOR_LOW, category>>>>
        \o (IF category # NoCategory THEN <<<<FLOOR_LOW, NoCategory>>>> ELSE <<>>)
        \o <<<<0, NoCategory>>>>

\* the rungs with the first one left out when min_similarity is not above
\* the lower floor
LadderAbove(category, min_similarity) ==
    (IF min_similarity > FLOOR_LOW THEN <<<<FLOOR_LOW, category>>>> ELSE <<>>)
        \o (IF category # NoCategory THEN <<<<FLOOR_LOW, NoCategory>>>> ELSE <<>>)
        \o <<<<0, NoCategory>>>>

\* what the backend answers to the search s = <<floor, category>>
AnswerTo(s) == SearchKnowledgeBase(fnCall.corpus, fnCall.top_k, s[2], s[1])

\* the initial search of the call returned nothing
InitialSearchEmpty ==
    /\ fnCall.op = "kb_search"
    /\ AnswerTo(<<fnCall.min_similarity, fnCall.category>>) = <<>>

\* the call climbed the ladder: after the initial search it made the first
\* rungs of the ladder in order, each once, every search but the last one
\* came back empty, it stopped before the end of the ladder only on a search
\* with results, and it returned the answer to its last search
Climbed(ladder) ==
    LET searches == fnRet.searches
        n == Len(searches)
    IN  /\ fnRet.outcome = "ok"
        /\ n >= 2 /\ n <= 4
        /\ searches[1] = <<fnCall.min_similarity, fnCall.category>>
        /\ n - 1 <= Len(ladder)
        /\ \A i \in 2..n : searches[i] = ladder[i - 1]
        /\ \A i \in 1..(n - 1) : AnswerTo(searches[i]) = <<>>
        /\ (n - 1 < Len(ladder) => AnswerTo(searches[n]) # <<>>)
        /\ fnRet.results = AnswerTo(searches[n])

\* C18 as stated: with an empty initial search the searches follow
\* (0.3, same category), (0.3, no category) if a category was given,
\* (0.0, no category).
C18_LadderAsStated ==
    InitialSearchEmpty => Climbed(LadderAsStated(fnCall.category))

\* C18: with an empty initial search the call makes the rungs (0.3, same
\* category) if min_similarity is above 0.3, (0.3, no category) if a category
\* was given, (0.0, no category), in this order and each at most once, stops
\* at the first rung with results and returns them, and returns an empty list
\* without raising when every rung is empty.
C18_FallbackLadder ==
    InitialSearchEmpty => Climbed(LadderAbove(fnCall.category, fnCall.min_similarity))

\* a call that stopped at the second rung with results after an empty
\* initial search and an empty first rung
C18_Witness ==
    /\ InitialSearchEmpty
    /\ fnRet.searches = <<<<7, "product_guide">>, <<FLOOR_LOW, "product_guide">>,
                          <<FLOOR_LOW, NoCategory>>>>
    /\ fnRet.results # <<>>

-----------------------------------------------------------------------------
(* Claims about extract_citations *)

\* the citations extract_citations yields for the i-th executed tool
CitationsFor(i) == ExtractCitations(<<tool_results[i]>>)

\* C19: on the results the dispatcher returns, extract_citations yields one
\* citation per returned chunk for a successful kb_search call, exactly one
\* for a successful sql_query call, exactly one for a successful
\* kpi_top_root_causes call, and none for a call whose result has error set.
C19_CitationsPerResult ==
    \A i \in DOMAIN tool_results :
        LET tc == tool_results[i]
        IN  /\ tc.error # "None" => CitationsFor(i) = <<>>
            /\ (tc.error = "None" /\ tc.has_result) =>
                  /\ tc.tool_name = "kb_search" =>
                        Len(CitationsFor(i)) = Len(tc.result.result)
                  /\ tc.tool_name = "sql_query" => Len(CitationsFor(i)) = 1
                  /\ tc.tool_name = "kpi_top_root_causes" => Len(CitationsFor(i)) = 1

\* a successful kb_search call that returned a chunk, and a successful
\* sql_query call, with no citation
SuccessfulCallsWithoutCitation ==
    \E i, j \in DOMAIN tool_results :
        /\ tool_results[i].tool_name = "kb_search"
        /\ tool_results[i].has_result
        /\ Len(tool_results[i].result.result) = 1
        /\ CitationsFor(i) = <<>>
        /\ tool_results[j].tool_name = "sql_query"
        /\ tool_results[j].has_result
        /\ CitationsFor(j) = <<>>

-----------------------------------------------------------------------------
(* Claims about the conversation across turns *)

\* the context holds a message of this role and content
InContext(context, role, content) ==
    \E k \in DOMAIN context : context[k].role = role /\ context[k].content = content

\* C20: when two questions are asked one after the other with the same
\* caller-supplied conversation_id, the model context of the second turn
\* contains the user message and the assistant answer of the first turn,
\* whatever id the caller supplied.
C20_SecondTurnSeesFirst ==
    \A i \in 1..(Len(asked) - 1) :
        (/\ asked[i].caller_id # ""
         /\ asked[i + 1].caller_id = asked[i].caller_id
         /\ asked[i + 1].answered) =>
            /\ InContext(asked[i + 1].context, "user", asked[i].question)
            /\ InContext(asked[i + 1].context, "assistant", asked[i].answer)

\* two questions with an id of the caller's own making: the context of the
\* second turn holds the second question only
SecondTurnForgotFirst ==
    /\ Len(asked) = 2
    /\ asked[1].caller_id = "mine"
    /\ asked[2].caller_id = "mine"
    /\ asked[2].answered
    /\ asked[2].context = <<[role |-> "user", content |-> asked[2].question]>>

\* C20 for the ids the store generated
StoreIdsRemembered ==
    \A i \in 1..(Len(asked) - 1) :
        (/\ asked[i].caller_id \in DOMAIN conversations
         /\ asked[i + 1].caller_id = asked[i].caller_id
         /\ asked[i + 1].answered) =>
            /\ InContext(asked[i + 1].context, "user", asked[i].question)
            /\ InContext(asked[i + 1].context, "assistant", asked[i].answer)

-----------------------------------------------------------------------------
(* Claims about expiry *)

\* the conversation id was stored and expired when the last call was made
ExpiredBefore(id) ==
    /\ id \in DOMAIN lastOp.before
    /\ lastOp.at > lastOp.before[id].updated_at + ttl_hours

\* C21: a conversation whose updated_at lies more than ttl_hours in the past
\* is not returned by get_conversation, get_context or get_summary;
\* cleanup_expired removes exactly the expired conversations, leaves the
\* others unchanged and returns the number it removed.
C21_ExpiredNeverReturned ==
    /\ lastOp.op = "get_conversation" =>
          /\ ExpiredBefore(lastOp.arg) => ~lastOp.result.found
          /\ lastOp.result.found =>
                /\ lastOp.arg \in DOMAIN lastOp.before
                /\ lastOp.result.conversation = lastOp.before[lastOp.arg]
                /\ lastOp.at <= lastOp.result.conversation.updated_at + ttl_hours
    /\ (lastOp.op = "get_context" /\ ExpiredBefore(lastOp.arg)) => lastOp.result = <<>>
    /\ (lastOp.op = "get_summary" /\ ExpiredBefore(lastOp.arg)) =>
          lastOp.result = NotFoundSummary
    /\ lastOp.op = "cleanup_expired" =>
          LET expired == {id \in DOMAIN lastOp.before : ExpiredBefore(id)}
          IN  /\ DOMAIN conversations = DOMAIN lastOp.before \ expired
              /\ \A id \in DOMAIN conversations : conversations[id] = lastOp.before[id]
              /\ lastOp.result = Cardinality(expired)

\* a sweep that removed one expired conversation and kept a live one
C21_Witness ==
    /\ lastOp.op = "cleanup_expired"
    /\ lastOp.result = 1
    /\ Cardinality(DOMAIN lastOp.before) = 2
    /\ Cardinality(DOMAIN conversations) = 1

\* get_conversation, get_context and get_summary each met an expired
\* conversation with a message
C21_ExpiredAsked ==
    /\ lastOp.op \in {"get_conversation", "get_context", "get_summary"}
    /\ ExpiredBefore(lastOp.arg)
    /\ lastOp.before[lastOp.arg].messages # <<>>

-----------------------------------------------------------------------------
(* Claims about list_conversations *)

\* the stored conversations the last call of list_conversations was to list
Listed ==
    {id \in DOMAIN lastOp.before :
        lastOp.arg.user_id = NoUser \/ lastOp.before[id].user_id = lastOp.arg.user_id}

\* the last call of list_conversations returned the summaries of the listed
\* conversations, each once, by descending updated_at and cut to limit
ListedSortedAndCut ==
    LET result == lastOp.result
        n == Cardinality(Listed)
    IN  /\ ~lastOp.raised
        /\ Len(result) = IF n < lastOp.arg.limit THEN n ELSE lastOp.arg.limit
        /\ \A i \in DOMAIN result :
              /\ "conversation_id" \in DOMAIN result[i]
              /\ result[i].conversation_id \in Listed
              /\ result[i].updated_at = lastOp.before[result[i].conversation_id].updated_at
        /\ \A i, j \in DOMAIN result :
              i < j => /\ result[i].updated_at >= result[j].updated_at
                       /\ result[i].conversation_id # result[j].conversation_id
        /\ \A id \in Listed :
              (\A i \in DOMAIN result : result[i].conversation_id # id) =>
                  \A i \in DOMAIN result :
                      result[i].updated_at >= lastOp.before[id].updated_at

\* C22: list_conversations returns, without raising, the summaries of the
\* stored conversations (of the given user when user_id is set), sorted by
\* updated_at descending and cut to limit, in every state of the store,
\* expired conversations not yet removed included.
C22_ListNeverRaises ==
    lastOp.op = "list_conversations" => ListedSortedAndCut

\* list_conversations raised on a store that holds an expired conversation
ListRaisedOnExpired ==
    /\ lastOp.op = "list_conversations"
    /\ lastOp.raised
    /\ \E id \in Listed : ExpiredBefore(id)

\* C22 on stores without an expired conversation to list
ListOfLiveConversations ==
    (lastOp.op = "list_conversations" /\ \A id \in Listed : ~ExpiredBefore(id)) =>
        ListedSortedAndCut

-----------------------------------------------------------------------------
(* Claims about add_message on an unknown id *)

\* the last call was add_message with an id the store did not hold, or held
\* expired
AddedToUnknownId ==
    /\ lastOp.op = "add_message"
    /\ lastOp.arg \notin DOMAIN lastOp.before \/ ExpiredBefore(lastOp.arg)

\* C28: add_message with a conversation id that is not in the store creates a
\* conversation under that same id and appends the message to it; it does not
\* raise and leaves no other new conversation in the store.
C28_AddMessageCreatesUnderSameId ==
    AddedToUnknownId =>
        /\ ~lastOp.raised
        /\ lastOp.arg \in DOMAIN conversations
        /\ Len(conversations[lastOp.arg].messages) = 1
        /\ DOMAIN conversations \subseteq DOMAIN lastOp.before \cup {lastOp.arg}

\* add_message raised and left an empty conversation under another id
AddMessageRaisedKeyError ==
    /\ AddedToUnknownId
    /\ lastOp.raised
    /\ lastOp.arg \notin DOMAIN conversations
    /\ \E id \in DOMAIN conversations \ DOMAIN lastOp.before :
          conversations[id].messages = <<>>

-----------------------------------------------------------------------------
(* Claims about failing tool calls *)

\* the turn is over, it was not cancelled, the first model call returned tool
\* calls and the stream of the second one did not fail
ToolTurnOver ==
    /\ pc = "end"
    /\ ~cancelled
    /\ response # <<>>
    /\ \A i \in DOMAIN events :
          ~(events[i].type = "error" /\ events[i].content = "Streaming error")

\* C23: when tool calls of a turn fail while the model calls succeed, the turn
\* still emits a tool_call event for every requested call, streams the final
\* answer and ends with done, never with error.
C23_ToolFailureKeepsTurn ==
    ToolTurnOver =>
        /\ Len(EventsOfType(events, "tool_call")) = Len(response)
        /\ \E i \in DOMAIN llm_calls : llm_calls[i].op = "stream"
        /\ events[Len(events)].type = "done"
        /\ ~HasEvent("error")

\* a turn that ended with error on a tool call whose arguments fail the
\* validation of ToolCall: no tool_call event, no second model call
ToolFailureEndedTurn ==
    /\ ToolTurnOver
    /\ \E k \in DOMAIN response : ~IsMapping(response[k].arguments)
    /\ events[Len(events)].type = "error"
    /\ EventsOfType(events, "tool_call") = <<>>
    /\ Len(llm_calls) = 1

\* C23 for turns whose tool calls all carry an argument mapping
FailureInsideExecuteTool ==
    (ToolTurnOver /\ \A k \in DOMAIN response : IsMapping(response[k].arguments)) =>
        /\ Len(EventsOfType(events, "tool_call")) = Len(response)
        /\ \E i \in DOMAIN llm_calls : llm_calls[i].op = "stream"
        /\ events[Len(events)].type = "done"
        /\ ~HasEvent("error")

-----------------------------------------------------------------------------
(* Claims about get_top_root_causes *)

\* the arguments of the last call are outside what the claim allows
KpiArgumentsInvalid ==
    \/ fnCall.year < 2020 \/ fnCall.year > CurrentYear + 1
    \/ fnCall.month # NoInt /\ (fnCall.month[1] < 1 \/ fnCall.month[1] > 12)
    \/ fnCall.top_n < 1 \/ fnCall.top_n > 100
    \/ /\ fnCall.severity_filter # NoSeverity
       /\ Lower(fnCall.severity_filter) \notin {"critical", "high", "medium", "low"}

\* C24: get_top_root_causes rejects, before opening a database connection,
\* every year below 2020 or above the current year + 1, every month outside
\* 1..12 (0 and negative values included), every top_n outside 1..100 and
\* every severity outside {critical, high, medium, low}; a valid call on a
\* mart with no matching row returns an empty list without raising.
C24_KpiArgumentsValidated ==
    fnCall.op = "get_top_root_causes" =>
        /\ KpiArgumentsInvalid => (fnRet.outcome = "ValueError" /\ fnRet.connects = 0)
        /\ (/\ ~KpiArgumentsInvalid
            /\ fnCall.db.connect /\ fnCall.db.error = "none" /\ fnCall.db.rows = <<>>) =>
                (fnRet.outcome = "ok" /\ fnRet.results = <<>>)

\* month 0 went through to the database
MonthZeroAccepted ==
    /\ fnCall.op = "get_top_root_causes"
    /\ fnCall.month = <<0>>
    /\ fnRet.outcome = "ok"
    /\ fnRet.connects = 1

\* C24 for every month but 0
KpiValidatedButMonthZero ==
    (fnCall.op = "get_top_root_causes" /\ fnCall.month # <<0>>) =>
        /\ KpiArgumentsInvalid => (fnRet.outcome = "ValueError" /\ fnRet.connects = 0)
        /\ (/\ ~KpiArgumentsInvalid
            /\ fnCall.db.connect /\ fnCall.db.error = "none" /\ fnCall.db.rows = <<>>) =>
                (fnRet.outcome = "ok" /\ fnRet.results = <<>>)

-----------------------------------------------------------------------------
(* Claims about the read-only transaction *)

\* the call used a connection
ConnectionUsed == sqlOut.outcome # "idle" /\ sqlOut.connects > 0

\* on the connection SET TRANSACTION READ ONLY, SET statement_timeout and the
\* caller's statement were executed, in this order and nothing else
SetBeforeStatement ==
    /\ sqlOut.connects = 1
    /\ Len(sqlOut.sent) = 3
    /\ sqlOut.sent[1] = SetReadOnly
    /\ sqlOut.sent[2] = SetTimeout
    /\ sqlOut.sent[3].text = DropTrailing(sqlOut.sent[3].text, {";"})
    /\ sqlOut.sent[3] \notin {SetReadOnly, SetTimeout}

\* C25: on every connection that execute_sql_query uses, SET TRANSACTION READ
\* ONLY and then SET statement_timeout are executed before the caller's
\* statement, in that order, and the caller's statement runs in that same
\* read-only transaction with nothing committed on the connection.
C25_ReadOnlyTransaction ==
    ConnectionUsed =>
        /\ SetBeforeStatement
        /\ ~Committed(sqlOut.sent[3], sqlIn.db)

\* the caller's statement passed the gate and committed the transaction that
\* was set read-only
TransactionCommitted ==
    /\ ConnectionUsed
    /\ GateOf(sqlIn.query) = "ok"
    /\ Committed(sqlOut.sent[3], sqlIn.db)

\* the order of the statements on every connection used
SetStatementsComeFirst == ConnectionUsed => SetBeforeStatement

-----------------------------------------------------------------------------
(* Claims about closing connections *)

\* the operations of SpecPure that open a database connection
OpensConnection == fnCall.op \in {"get_top_root_causes", "search_knowledge_base"}

\* C26: every database connection opened by a tool operation (SQL query, KPI
\* lookup, knowledge-base vector search) is closed on every exit path of that
\* operation, including the paths where the statement raises.
C26_ConnectionsClosed ==
    OpensConnection => fnRet.closes = fnRet.connects

\* the vector search opened a connection, its statement raised, and the
\* connection was left open
VectorSearchLeftConnectionOpen ==
    /\ fnCall.op = "search_knowledge_base"
    /\ fnCall.backend.error # "none"
    /\ fnRet.connects = 1
    /\ fnRet.closes = 0

\* the KPI lookup closes what it opened, the failing statement included
KpiConnectionsClosed ==
    fnCall.op = "get_top_root_causes" => fnRet.closes = fnRet.connects

\* execute_sql_query closes what it opened, the failing statement included
SqlConnectionsClosed ==
    sqlOut.outcome # "idle" => sqlOut.closes = sqlOut.connects

-----------------------------------------------------------------------------
(* Claims about trimming *)

\* C27: after any sequence of add_message calls on a conversation, no system
\* message has been removed, at most max_history non-system messages are
\* kept, and the kept non-system messages are the most recently appended ones
\* in their original relative order.
C27_TrimKeepsSystemAndRecent ==
    fnCall.op = "add_message" =>
        LET kept == SelectSeq(fnRet.messages, NotSystem)
            sent == SelectSeq(fnCall.appended, NotSystem)
        IN  /\ SelectSeq(fnRet.messages, IsSystem) = SelectSeq(fnCall.appended, IsSystem)
            /\ Len(kept) <= max_history
            /\ kept = LastN(sent, max_history)

\* more than max_history non-system messages were appended around system
\* messages, and the oldest non-system message is gone
C27_Witness ==
    /\ fnCall.op = "add_message"
    /\ Len(SelectSeq(fnCall.appended, NotSystem)) > max_history
    /\ fnCall.appended[1].role = "user"
    /\ fnCall.appended[2].role = "system"
    /\ Len(fnRet.messages) = max_history + 1
    /\ fnRet.messages[1].role = "system"

-----------------------------------------------------------------------------
(* Claims about two turns on one conversation id *)

\* both turns reached their done event
BothTurnsDone == turns # <<>> /\ \A k \in Racers : turns[k].pc = "done"

\* the four appends of the two turns stay within max_history
NothingTrimmed == turns # <<>> /\ turns[1].earlier + 2 * Cardinality(Racers) <= max_history

\* the positions of msgs that hold a message of the role and content
Holding(msgs, role, content) ==
    {i \in DOMAIN msgs : msgs[i].role = role /\ msgs[i].content = content}

\* the conversation id holds, next to the n messages it held before, the
\* user message and the assistant message of both turns, each once
HoldsBothTurns(id, n) ==
    /\ id \in DOMAIN conversations
    /\ LET msgs == conversations[id].messages
       IN  /\ Len(msgs) = n + 2 * Cardinality(Racers)
           /\ \A k \in Racers :
                 /\ Cardinality(Holding(msgs, "user", QuestionOf(k))) = 1
                 /\ \E i \in Holding(msgs, "assistant", turns[k].accumulated_text) :
                       /\ msgs[i].tool_calls = turns[k].executed_tools
                       /\ \E j \in Holding(msgs, "user", QuestionOf(k)) : j < i
           /\ Cardinality({i \in DOMAIN msgs : msgs[i].role = "assistant" /\ i > n}) =
                  Cardinality(Racers)

\* C29: when two turns on the same conversation id interleave at their
\* suspension points, no appended message is lost or duplicated: if no
\* trimming, deletion or expiry occurs, the conversation holds after both
\* turns finish both user messages and both assistant messages, each exactly
\* once.
C29_NoAppendLostOrDuplicated ==
    (BothTurnsDone /\ NothingTrimmed) => HoldsBothTurns(turns[1].sent, turns[1].earlier)

\* both turns were sent with an id the store does not hold, finished, and
\* left their messages in two conversations, neither under the id sent
TurnsEndedInSeparateConversations ==
    /\ BothTurnsDone
    /\ NothingTrimmed
    /\ turns[1].sent = turns[2].sent
    /\ turns[1].sent \notin DOMAIN conversations
    /\ turns[1].conversation_id # turns[2].conversation_id
    /\ \A k \in Racers :
          Len(conversations[turns[k].conversation_id].messages) = 2

\* two turns sent with the id of a stored conversation: under every
\* interleaving the conversation holds the messages of both
StoredIdHoldsBothTurns ==
    (BothTurnsDone /\ NothingTrimmed /\ turns[1].sent = ConvId(1)) =>
        HoldsBothTurns(ConvId(1), turns[1].earlier)

-----------------------------------------------------------------------------
(* Claims about tool results staying in their turn *)

IsFunction(m) == m.role = "function"

NotFunction(m) == m.role # "function"

\* what a turn folded from its own executed tools
OwnFolded(turn) ==
    [i \in DOMAIN turn.executed_tools |-> FoldedMessage(turn.executed_tools[i])]

\* C30: the tool results and function-role messages of a turn stay local to
\* that turn: they are never part of what get_context returns, so the model
\* context of a later or concurrent turn never contains tool results folded
\* by another turn, including a turn that was cancelled or ended in error.
C30_ToolResultsStayLocal ==
    /\ \A id \in DOMAIN conversations :
          LET context == GetContext(conversations[id].messages)
          IN  \A i \in DOMAIN context :
                 /\ NotFunction(context[i])
                 /\ DOMAIN context[i] = {"role", "content"}
    /\ turns # <<>> =>
          \A k \in Racers :
             /\ SelectSeq(turns[k].messages, IsFunction) \in {<<>>, OwnFolded(turns[k])}
             /\ \A i \in DOMAIN turns[k].messages :
                   NotFunction(turns[k].messages[i]) =>
                       DOMAIN turns[k].messages[i] = {"role", "content"}

\* turn 1 folded a tool result and was cancelled; turn 2 ran on the same
\* conversation, with the question and no function message of turn 1 in its
\* context, and stored its answer with its own tool result
C30_Witness ==
    /\ turns # <<>>
    /\ turns[1].pc = "cancelled"
    /\ turns[1].executed_tools # <<>>
    /\ turns[1].executed_tools[1].has_result
    /\ SelectSeq(turns[1].messages, IsFunction) # <<>>
    /\ turns[2].pc = "done"
    /\ turns[2].conversation_id = turns[1].conversation_id
    /\ Holding(turns[2].messages, "user", QuestionOf(1)) # {}
    /\ turns[2].executed_tools # <<>>
    /\ SelectSeq(turns[2].messages, IsFunction) = OwnFolded(turns[2])

\* a turn that began after the other one had stored its answer and its tool
\* calls: the answer is in its context, the tool results are not
LaterTurnSawAnswerOnly ==
    /\ turns # <<>>
    /\ turns[1].pc = "done"
    /\ turns[1].executed_tools # <<>>
    /\ turns[2].pc = "generate"
    /\ Holding(turns[2].messages, "assistant", AnswerOf(1)) # {}

=============================================================================
